---------------------------- MODULE Spec2Model ----------------------------
(***************************************************************************)
(* crypto-scalping-bot: LSTMScalpingStrategy driven by the backtesting.py  *)
(* framework as BacktestRunner.run_backtest configures it                  *)
(* (exclusive_orders=True, trade_on_close=False).                          *)
(*                                                                         *)
(* Prices are integers ("ticks"); stop, limit and fill prices and all      *)
(* money are kept multiplied by Scale so that close * (1 -/+ pct) is an    *)
(* integer.  Bar k of the data frame (k = 1 .. Len(data)) has timestamp k. *)
(* The framework calls are modelled by what backtesting.py does for them:  *)
(* Backtest.run's bar loop, the broker's order queue, bracket (SL/TP)      *)
(* orders, and the closing of trades.                                      *)
(***************************************************************************)
EXTENDS Integers, Sequences, FiniteSets, TLC

(* ------------------------------ bounds --------------------------------- *)
MaxBars == 4
\* calls of run_backtest on one runner
MaxRuns == 2
\* rows of the frame and forecasts handed to prepare_data_for_backtest
MaxRaw == 3
\* trades of a trade log and points of an equity curve given to the analyzer
MaxTrades == 4
MaxPoints == 4
\* characters of a prompt given to the hook
MaxPromptLen == 3
\* candle times the exchange knows, requests one call of fetch_ohlcv makes
MaxTime == 3
MaxRequests == 3

(* -------------------------- program constants -------------------------- *)
\* fixed-point denominators of the model
Scale == 1000
RateDen == 10000
\* LSTMScalpingStrategy class attributes (lstm_strategy.py:24-29)
prediction_threshold == 2        \* 0.002, in 1/Scale
rsi_oversold == 30
rsi_overbought == 70
stop_loss_pct == 5               \* 0.005, in 1/Scale
take_profit_pct == 10            \* 0.01, in 1/Scale
position_size == 950             \* 0.95, in 1/Scale
\* run_backtest defaults (backtest_runner.py:113)
StartCash == 10000
commission == 4                  \* 0.0004, in 1/RateDen
\* Backtest(...) keywords (backtest_runner.py:152-153)
exclusive_orders == TRUE
trade_on_close == FALSE
\* an equity cell not yet written (np.nan); a written cell is <<value>>
NaN == <<>>
\* first bar index of the loop of Backtest.run, 0-based: no indicator is
\* declared through Strategy.I, so only the "+1" of the warm-up remains
start == 1

(* ------------------------------ the input ------------------------------ *)
\* OHLC shapes of a bar, around a base price; High >= max(Open, Close),
\* Low <= min(Open, Close), as the data model requires.
BasePrice == 1000
Step == 10
Shapes ==
  { [Open |-> BasePrice,        High |-> BasePrice,        Low |-> BasePrice,        Close |-> BasePrice],
    [Open |-> BasePrice,        High |-> BasePrice + Step, Low |-> BasePrice - Step, Close |-> BasePrice],
    [Open |-> BasePrice,        High |-> BasePrice,        Low |-> BasePrice - Step, Close |-> BasePrice - Step],
    [Open |-> BasePrice,        High |-> BasePrice + Step, Low |-> BasePrice,        Close |-> BasePrice + Step],
    [Open |-> BasePrice - Step, High |-> BasePrice + Step, Low |-> BasePrice - Step, Close |-> BasePrice] }

\* indicator / forecast profiles of a bar: the forecast relative to the close,
\* RSI, MACD and its signal line
Bull == [dPred |-> Step, RSI |-> 50, MACD |-> 1, MACD_Signal |-> 0]
Bear == [dPred |-> -Step, RSI |-> 50, MACD |-> -1, MACD_Signal |-> 0]
Neutral == [dPred |-> 0, RSI |-> 50, MACD |-> 0, MACD_Signal |-> 0]

MkBar(s, g) ==
  [Open |-> s.Open, High |-> s.High, Low |-> s.Low, Close |-> s.Close,
   Predicted_Price |-> s.Close + g.dPred,
   RSI |-> g.RSI, MACD |-> g.MACD, MACD_Signal |-> g.MACD_Signal]

\* the bars a series is drawn from
Bars ==
  { MkBar(s, Bull) : s \in Shapes }
    \cup { MkBar(s, Bear) : s \in { x \in Shapes : x.Open = x.Close /\ x.Open = BasePrice } }
    \cup { MkBar(s, Neutral) : s \in { x \in Shapes : x.High = x.Low } }

\* What prepare_data_for_backtest is given: rows of the processed frame, some
\* with an indicator that is not defined yet, and the array of forecasts,
\* which may be shorter or longer than the frame.
\* A cell of an indicator or forecast column is NaN or <<value>>.
Cell(v) == <<v>>
Value(c) == c[1]

RawRows ==
  { [Open |-> s.Open, High |-> s.High, Low |-> s.Low, Close |-> s.Close,
     RSI |-> Cell(g.RSI), MACD |-> Cell(g.MACD),
     MACD_Signal |-> Cell(g.MACD_Signal)] :
       s \in { x \in Shapes : x.Open = x.Close /\ x.Open = BasePrice }, g \in {Bull} }
    \cup { [Open |-> BasePrice, High |-> BasePrice, Low |-> BasePrice,
            Close |-> BasePrice, RSI |-> NaN, MACD |-> Cell(Bull.MACD),
            MACD_Signal |-> Cell(Bull.MACD_Signal)] }

Forecasts == { Cell(BasePrice + Step), NaN }

(* ------------------------------- state --------------------------------- *)
VARIABLES
  data,            \* the data frame handed to Backtest: a sequence of bars
  finalize_trades, \* Backtest keyword the call leaves to the framework
  pc,              \* position of Backtest.run
  n,               \* data._set_length: number of bars visible to next()
  predictions,     \* arrays captured by Strategy.init
  current_price,
  rsi,
  macd,
  macd_signal,
  cash,            \* broker._cash (x Scale)
  orders,          \* broker.orders, in processing order
  trades,          \* broker.trades (open trades)
  closed_trades,   \* broker.closed_trades (the trade log)
  next_id,         \* identity of the next Trade object
  equity,          \* broker._equity, one cell per bar
  equity_curve,    \* the equity column of the results, once computed
  actions,         \* what next() decided on each bar it was called for, with
                   \* the side of the position and the length of the trade
                   \* log it found
  results,         \* runner.results: what the last run_backtest stored
  returned,        \* what each call of run_backtest returned, in call order
  raw,             \* the arguments of prepare_data_for_backtest: df, predictions
  analyzer,        \* a PerformanceAnalyzer: trades_df, equity_curve, and what
                   \* calculate_metrics / generate_report did with them
  search,          \* optimize_strategy: the admissible combinations, the
                   \* heatmap of their scores, the runs made, the result
  hook,            \* a run of improve-prompt.py: stdin, stdout, stderr, exit
                   \* status
  pipeline,        \* a run of run_pipeline.py: arguments, position, steps
                   \* started, messages, result, exit status
  optimizer,       \* a run of optimize-prompt.py: the prompt and the wrapper
  fetcher          \* fetch_ohlcv: the exchange, the loop position, the candles

vars == <<data, finalize_trades, pc, n, predictions, current_price, rsi, macd,
          macd_signal, cash, orders, trades, closed_trades, next_id, equity,
          equity_curve, actions, results, returned, raw, analyzer, search, hook, pipeline, optimizer, fetcher>>

(* ------------------------------ helpers -------------------------------- *)
Min(a, b) == IF a <= b THEN a ELSE b
Max(a, b) == IF a >= b THEN a ELSE b
Abs(a) == IF a >= 0 THEN a ELSE -a

(* ------------------------------ the broker ----------------------------- *)
\* An order: oid, parent (id of the trade it is contingent on, 0 for a
\* stand-alone order), is_long, stop and limit price (0 = None), the sl and
\* tp it carries for the trade it opens (0 = None), frac (order size as a
\* fraction of the available margin, in 1/Scale), tag.
\* An open trade: id, size (signed units), entry_price, entry_bar, and the
\* sl and tp price of its bracket orders.
\* A closed trade adds exit_price, exit_bar and reason, the tag of the order
\* that closed it.

\* Position.size, Position.__bool__, is_long, is_short
RECURSIVE PositionSize(_)
PositionSize(ts) ==
  IF ts = <<>> THEN 0 ELSE Head(ts).size + PositionSize(Tail(ts))
HasPosition(ts) == PositionSize(ts) # 0
IsLong(ts) == PositionSize(ts) > 0
IsShort(ts) == PositionSize(ts) < 0

\* the side of the position
Side(ts) == IF IsLong(ts) THEN "Long" ELSE IF IsShort(ts) THEN "Short" ELSE "Flat"

\* broker._commission: rate x notional of a fill
Commission(size, price) == (Abs(size) * price * commission) \div RateDen

\* Trade.pl at a price
TradePl(t, price) == t.size * (price - t.entry_price)

RECURSIVE SumPl(_, _)
\* sum(trade.pl for trade in trades)
SumPl(ts, price) ==
  IF ts = <<>> THEN 0 ELSE TradePl(Head(ts), price) + SumPl(Tail(ts), price)

RECURSIVE SumValue(_, _)
\* sum(trade.value for trade in trades)
SumValue(ts, price) ==
  IF ts = <<>> THEN 0 ELSE Abs(Head(ts).size) * price + SumValue(Tail(ts), price)

\* broker.equity and broker.margin_available at the close of bar k
Equity(st, k) == st.cash + SumPl(st.trades, data[k].Close * Scale)

MarginAvailable(st, k) ==
  Max(0, Equity(st, k) - SumValue(st.trades, data[k].Close * Scale))

\* broker._close_trade: the trade leaves broker.trades, its bracket orders
\* leave the queue, the closed record is appended to the trade log, cash
\* receives the P&L less the exit commission
CloseTrade(st, t, price, time_index, reason) ==
  [st EXCEPT
     !.trades = SelectSeq(@, LAMBDA x : x.id # t.id),
     !.orders = SelectSeq(@, LAMBDA o : ~(o.parent = t.id /\ o.tag \in {"sl", "tp"})),
     !.closed = Append(@, [id |-> t.id, size |-> t.size,
                           entry_price |-> t.entry_price, entry_bar |-> t.entry_bar,
                           sl |-> t.sl, tp |-> t.tp,
                           exit_price |-> price, exit_bar |-> time_index,
                           reason |-> reason]),
     !.cash = @ + TradePl(t, price) - Commission(t.size, price)]

\* _open_trade with the bracket orders queued the other way round: TP first
OpenTradeTpFirst(st, price, size, sl, tp, time_index) ==
  LET id == st.next_id
      slo == [oid |-> id + 1, parent |-> id, is_long |-> size < 0, stop |-> sl,
              limit |-> 0, sl |-> 0, tp |-> 0, frac |-> 0, tag |-> "sl"]
      tpo == [oid |-> id + 2, parent |-> id, is_long |-> size < 0, stop |-> 0,
              limit |-> tp, sl |-> 0, tp |-> 0, frac |-> 0, tag |-> "tp"]
      withSl == IF sl # 0 THEN <<slo>> \o st.orders ELSE st.orders
      withTp == IF tp # 0 THEN <<tpo>> \o withSl ELSE withSl
  IN [st EXCEPT
        !.trades = Append(@, [id |-> id, size |-> size, entry_price |-> price,
                              entry_bar |-> time_index, sl |-> sl, tp |-> tp]),
        !.orders = withTp,
        !.cash = @ - Commission(size, price),
        !.next_id = id + 3]

\* broker._open_trade: the trade is appended; its TP order and then its SL
\* order are inserted at the front of the queue, so the SL order is
\* processed before the TP order
OpenTrade(st, price, size, sl, tp, time_index) ==
  LET id == st.next_id
      slo == [oid |-> id + 1, parent |-> id, is_long |-> size < 0, stop |-> sl,
              limit |-> 0, sl |-> 0, tp |-> 0, frac |-> 0, tag |-> "sl"]
      tpo == [oid |-> id + 2, parent |-> id, is_long |-> size < 0, stop |-> 0,
              limit |-> tp, sl |-> 0, tp |-> 0, frac |-> 0, tag |-> "tp"]
      withTp == IF tp # 0 THEN <<tpo>> \o st.orders ELSE st.orders
      withSl == IF sl # 0 THEN <<slo>> \o withTp ELSE withTp
  IN [st EXCEPT
        !.trades = Append(@, [id |-> id, size |-> size, entry_price |-> price,
                              entry_bar |-> time_index, sl |-> sl, tp |-> tp]),
        !.orders = withSl,
        !.cash = @ - Commission(size, price),
        !.next_id = id + 3]

\* Trade.close(): a market order contingent on the trade, put at the front
TradeClose(st, t, tag) ==
  [st EXCEPT
     !.orders = <<[oid |-> st.next_id, parent |-> t.id, is_long |-> t.size < 0,
                   stop |-> 0, limit |-> 0, sl |-> 0, tp |-> 0, frac |-> 0,
                   tag |-> tag]>> \o @,
     !.next_id = @ + 1]

RECURSIVE CloseAll(_, _, _)
\* for trade in trades: trade.close()
CloseAll(st, ts, tag) ==
  IF ts = <<>> THEN st ELSE CloseAll(TradeClose(st, Head(ts), tag), Tail(ts), tag)

\* for trade in reversed(trades)
Reverse(seq) == [j \in 1..Len(seq) |-> seq[Len(seq) + 1 - j]]

\* broker.new_order for a stand-alone order: with exclusive_orders every
\* non-contingent order is cancelled and every open trade gets a close order
\* before the new order joins the end of the queue
NewOrder(st, is_long, sl, tp) ==
  LET cancelled == IF exclusive_orders
                   THEN [st EXCEPT !.orders = SelectSeq(@, LAMBDA o : o.parent # 0)]
                   ELSE st
      closing == IF exclusive_orders
                 THEN CloseAll(cancelled, cancelled.trades, "exclusive")
                 ELSE cancelled
  IN [closing EXCEPT
        !.orders = Append(@, [oid |-> closing.next_id, parent |-> 0,
                              is_long |-> is_long, stop |-> 0, limit |-> 0,
                              sl |-> sl, tp |-> tp, frac |-> position_size,
                              tag |-> "entry"]),
        !.next_id = @ + 1]

\* "order not in self.orders"
Queued(st, oid) == \E j \in 1..Len(st.orders) : st.orders[j].oid = oid
Dequeue(st, oid) == [st EXCEPT !.orders = SelectSeq(@, LAMBDA o : o.oid # oid)]

\* broker._reduce_trade: the whole trade is closed when the order covers it,
\* else a part of it is split off and closed and the rest stays open
ReduceTrade(st, t, price, size, time_index, reason) ==
  IF Abs(size) >= Abs(t.size)
  THEN CloseTrade(st, t, price, time_index, reason)
  ELSE LET part == [t EXCEPT !.size = -size]
           left == [j \in 1..Len(st.trades) |->
                      IF st.trades[j].id = t.id
                      THEN [st.trades[j] EXCEPT !.size = @ + size]
                      ELSE st.trades[j]]
       IN [st EXCEPT
             !.trades = left,
             !.closed = Append(@, [id |-> t.id, size |-> part.size,
                                   entry_price |-> t.entry_price,
                                   entry_bar |-> t.entry_bar,
                                   sl |-> t.sl, tp |-> t.tp,
                                   exit_price |-> price, exit_bar |-> time_index,
                                   reason |-> reason]),
             !.cash = @ + TradePl(part, price) - Commission(part.size, price)]

RECURSIVE Net(_, _, _, _, _)
\* hedging=False: a filled order first closes or reduces, first in first
\* out, the open trades that face the other way; res = [st, need]
Net(res, ts, price, is_long, time_index) ==
  IF ts = <<>> \/ res.need = 0 THEN res
  ELSE LET t == Head(ts) IN
       IF (t.size > 0) = is_long
       THEN Net(res, Tail(ts), price, is_long, time_index)
       ELSE Net([st |-> ReduceTrade(res.st, t, price, res.need, time_index, "netting"),
                 need |-> IF Abs(res.need) >= Abs(t.size) THEN res.need + t.size ELSE 0],
                Tail(ts), price, is_long, time_index)

\* a Trade.close() order stamped with the bar before the one it fills on
TimeIndexCloseOnPreviousBar(o, k) ==
  IF o.limit = 0 /\ o.stop = 0 /\ o.parent # 0 THEN k - 1 ELSE k

\* the bar index a fill is stamped with: the bar being processed, or the bar
\* before it for a market order under trade_on_close
TimeIndex(o, k) ==
  IF o.limit = 0 /\ o.stop = 0 /\ trade_on_close /\ o.parent = 0 THEN k - 1 ELSE k

\* One pass of the loop body of broker._process_orders over order o on bar k.
\* Prices of the bar are compared with the stop and the limit price at the
\* same scale; a touch counts (>=, <=).
ProcessOrder(st, o, k) ==
  LET open == data[k].Open * Scale
      high == data[k].High * Scale
      low == data[k].Low * Scale
      stop_price == o.stop
      is_stop_hit == IF o.is_long THEN high >= stop_price ELSE low <= stop_price
      is_limit_hit == IF o.is_long THEN low <= o.limit ELSE high >= o.limit
      is_limit_hit_before_stop ==
        /\ is_limit_hit
        /\ stop_price # 0
        /\ IF o.is_long THEN o.limit <= stop_price ELSE o.limit >= stop_price
      from == IF stop_price # 0 THEN stop_price ELSE open
      price ==
        IF o.limit # 0
        THEN IF o.is_long THEN Min(from, o.limit) ELSE Max(from, o.limit)
        ELSE LET p == IF trade_on_close /\ o.parent = 0
                      THEN data[k - 1].Close * Scale ELSE open
             IN IF stop_price = 0 THEN p
                ELSE IF o.is_long THEN Max(p, stop_price) ELSE Min(p, stop_price)
      is_market_order == o.limit = 0 /\ stop_price = 0
      time_index == TimeIndex(o, k)
      \* a stand-alone order: size in units from the fraction of the margin
      adjusted == price + (price * commission) \div RateDen
      units == ((MarginAvailable(st, k) \div Scale) * o.frac) \div adjusted
      size == IF o.is_long THEN units ELSE -units
      net == Net([st |-> st, need |-> size], st.trades, price, o.is_long, time_index)
      opened == OpenTrade(net.st, price, net.need, o.sl, o.tp, time_index)
  IN
  IF ~Queued(st, o.oid) THEN st
  ELSE IF stop_price # 0 /\ ~is_stop_hit THEN st
  ELSE IF o.limit # 0 /\ (~is_limit_hit \/ is_limit_hit_before_stop) THEN st
  ELSE IF o.parent # 0
  THEN \* SL, TP or Trade.close() order: it closes the trade it belongs to
       LET open_ts == SelectSeq(st.trades, LAMBDA t : t.id = o.parent)
           st1 == IF open_ts # <<>>
                  THEN ReduceTrade(st, Head(open_ts), price, -Head(open_ts).size,
                                   time_index, o.tag)
                  ELSE st
       IN Dequeue(st1, o.oid)
  ELSE IF units = 0 THEN Dequeue(st, o.oid)
  ELSE IF Abs(net.need) * adjusted > MarginAvailable(net.st, k)
  THEN Dequeue(net.st, o.oid)
  ELSE IF net.need # 0
  THEN Dequeue([opened EXCEPT
                  !.reprocess = @ \/ (is_market_order /\ (o.sl # 0 \/ o.tp # 0))],
               o.oid)
  ELSE Dequeue(net.st, o.oid)

RECURSIVE ProcessList(_, _, _)
\* for order in list(self.orders)
ProcessList(st, snapshot, k) ==
  IF snapshot = <<>> THEN st
  ELSE ProcessList(ProcessOrder(st, Head(snapshot), k), Tail(snapshot), k)

RECURSIVE ProcessOrders(_, _)
\* broker._process_orders; it runs again when a market order opened a trade
\* with bracket orders, so that they can be hit within the same bar
ProcessOrders(st, k) ==
  LET r == ProcessList([st EXCEPT !.reprocess = FALSE], st.orders, k)
  IN IF r.reprocess THEN ProcessOrders(r, k) ELSE r

\* broker.next on bar k: process the orders, then log the equity of the bar;
\* at equity <= 0 every trade is closed at the bar's close, cash and the rest
\* of the equity array are zeroed and _OutOfMoneyError is raised.
\* res = [st, equity, out_of_money]
RECURSIVE CloseAllAt(_, _, _, _)
CloseAllAt(st, ts, price, k) ==
  IF ts = <<>> THEN st
  ELSE CloseAllAt(CloseTrade(st, Head(ts), price, k, "margin"), Tail(ts), price, k)

BrokerStep(st, eqs, k) ==
  LET done == ProcessOrders(st, k)
      eq == Equity(done, k)
  IN IF eq <= 0
     THEN [st |-> [CloseAllAt(done, done.trades, data[k].Close * Scale, k)
                     EXCEPT !.cash = 0],
           equity |-> [j \in 1..Len(eqs) |-> IF j >= k THEN <<0>> ELSE eqs[j]],
           out_of_money |-> TRUE]
     ELSE [st |-> done,
           equity |-> [eqs EXCEPT ![k] = <<eq>>],
           out_of_money |-> FALSE]

(* ----------------------------- the strategy ---------------------------- *)
\* A predicted change is the fraction num / den.
Above(change, threshold) == change.num * Scale > threshold * change.den
Below(change, threshold) == change.num * Scale < threshold * change.den

\* element j of self.price_change_predicted, the array init() computes from
\* the arrays it captured
PriceChangePredicted(j) ==
  [num |-> predictions[j] - current_price[j], den |-> current_price[j]]

\* array[-1] of an array captured by init()
Last(array) == array[Len(array)]

ShouldGoLong(prediction, rsi_, macd_, macd_signal_) ==
  LET prediction_bullish == Above(prediction, prediction_threshold)
      rsi_ok == rsi_ < rsi_overbought
      macd_bullish == macd_ > macd_signal_
  IN prediction_bullish /\ rsi_ok /\ macd_bullish

ShouldGoShort(prediction, rsi_, macd_, macd_signal_) ==
  LET prediction_bearish == Below(prediction, -prediction_threshold)
      rsi_ok == rsi_ > rsi_oversold
      macd_bearish == macd_ < macd_signal_
  IN prediction_bearish /\ rsi_ok /\ macd_bearish

\* _manage_position: does it call self.position.close()
ManagePosition(ts, current_prediction) ==
  IF IsLong(ts) /\ Below(current_prediction, -prediction_threshold) THEN TRUE
  ELSE IF IsShort(ts) /\ Above(current_prediction, prediction_threshold) THEN TRUE
  ELSE FALSE

\* the values next() reads at the top
CurrentPrediction == PriceChangePredicted(Len(predictions))
CurrentRsi == Last(rsi)
CurrentMacd == Last(macd)
CurrentMacdSignal == Last(macd_signal)

\* next() without its "if self.position: ... return" block
DecideNoGuard(len, ts) ==
  IF len < 2 THEN "Skip"
  ELSE IF ShouldGoLong(CurrentPrediction, CurrentRsi, CurrentMacd, CurrentMacdSignal)
  THEN "EnterLong"
  ELSE IF ShouldGoShort(CurrentPrediction, CurrentRsi, CurrentMacd, CurrentMacdSignal)
  THEN "EnterShort"
  ELSE "Hold"

\* next(): what it does on the bar, given len(self.data) and the open trades
Decide(len, ts) ==
  IF len < 2 THEN "Skip"
  ELSE IF HasPosition(ts)
  THEN IF ManagePosition(ts, CurrentPrediction) THEN "Exit" ELSE "Hold"
  ELSE IF ShouldGoLong(CurrentPrediction, CurrentRsi, CurrentMacd, CurrentMacdSignal)
  THEN "EnterLong"
  ELSE IF ShouldGoShort(CurrentPrediction, CurrentRsi, CurrentMacd, CurrentMacdSignal)
  THEN "EnterShort"
  ELSE "Hold"

\* _open_long / _open_short on bar k: stop and target from data.Close[-1]
OpenLong(st, k) ==
  LET entry_price == data[k].Close
      sl_price == entry_price * (Scale - stop_loss_pct)
      tp_price == entry_price * (Scale + take_profit_pct)
  IN NewOrder(st, TRUE, sl_price, tp_price)

OpenShort(st, k) ==
  LET entry_price == data[k].Close
      sl_price == entry_price * (Scale + stop_loss_pct)
      tp_price == entry_price * (Scale - take_profit_pct)
  IN NewOrder(st, FALSE, sl_price, tp_price)

\* self.position.close(): for trade in broker.trades: trade.close()
PositionClose(st) == CloseAll(st, st.trades, "close")

(* ------------------------------ the run -------------------------------- *)
BrokerState ==
  [orders |-> orders, trades |-> trades, closed |-> closed_trades,
   cash |-> cash, next_id |-> next_id, reprocess |-> FALSE]

Commit(st) ==
  /\ orders' = st.orders
  /\ trades' = st.trades
  /\ closed_trades' = st.closed
  /\ cash' = st.cash
  /\ next_id' = st.next_id

\* the equity array taken as it is, without bfill / fillna
FillEquityNoBackfill(eqs, final_cash) == eqs

\* pd.Series(broker._equity).bfill().fillna(broker._cash): a cell not written
\* takes the next written cell, and the final cash when there is none
FillEquity(eqs, final_cash) ==
  [j \in 1..Len(eqs) |->
     LET later == { m \in j..Len(eqs) : eqs[m] # NaN }
     IN IF later = {} THEN <<final_cash>>
        ELSE eqs[CHOOSE m \in later : \A x \in later : m <= x]]

\* runner.results before the first run
None == <<>>

\* a second Backtest that keeps the broker of the run before
NewBacktestReusingBroker(st) == [st EXCEPT !.reprocess = FALSE]

\* Backtest(data, strategy_class, cash, commission, ...): a new broker with
\* the starting cash, whatever state st the run before left
NewBacktest(st) ==
  [orders |-> <<>>, trades |-> <<>>, closed |-> <<>>,
   cash |-> StartCash * Scale, next_id |-> 1, reprocess |-> FALSE]

\* a row of bt_data with every column defined
Defined(row) ==
  /\ row.RSI # NaN
  /\ row.MACD # NaN
  /\ row.MACD_Signal # NaN
  /\ row.Predicted_Price # NaN

\* the Predicted_Price column: forecasts padded with NaN at the beginning when
\* there are fewer of them than rows, cut to the frame's length otherwise
PredictedPriceColumn(len, preds) ==
  IF Len(preds) < len
  THEN [j \in 1..len |->
          IF j <= len - Len(preds) THEN NaN ELSE preds[j - (len - Len(preds))]]
  ELSE SubSeq(preds, 1, len)

\* the frame before the rows with a NaN are dropped
BtData(df, preds) ==
  [j \in 1..Len(df) |->
     [Open |-> df[j].Open, High |-> df[j].High, Low |-> df[j].Low,
      Close |-> df[j].Close, Predicted_Price |-> PredictedPriceColumn(Len(df), preds)[j],
      RSI |-> df[j].RSI, MACD |-> df[j].MACD, MACD_Signal |-> df[j].MACD_Signal]]

\* the rows as the simulation reads them: numbers, NaN where undefined
Rows(bt_data) ==
  [j \in 1..Len(bt_data) |->
     LET row == bt_data[j]
         num(c) == IF c = NaN THEN NaN ELSE Value(c)
     IN [Open |-> row.Open, High |-> row.High, Low |-> row.Low,
         Close |-> row.Close, Predicted_Price |-> num(row.Predicted_Price),
         RSI |-> num(row.RSI), MACD |-> num(row.MACD),
         MACD_Signal |-> num(row.MACD_Signal)]]

\* prepare_data_for_backtest without its dropna()
PrepareDataKeepingNaN(df, preds) == Rows(BtData(df, preds))

\* prepare_data_for_backtest: bt_data.dropna()
PrepareDataForBacktest(df, preds) == Rows(SelectSeq(BtData(df, preds), Defined))

\* padded_predictions[-len(predictions):] = predictions with no forecast at
\* all: the slice [-0:] is the whole column and the assignment raises
PaddingRaises(df, preds) == Len(preds) = 0 /\ Len(df) > 0

\* the frame and the forecasts a prepared frame came from
Unprepared(bt_data) ==
  [df |-> [j \in 1..Len(bt_data) |->
             [Open |-> bt_data[j].Open, High |-> bt_data[j].High,
              Low |-> bt_data[j].Low, Close |-> bt_data[j].Close,
              RSI |-> Cell(bt_data[j].RSI), MACD |-> Cell(bt_data[j].MACD),
              MACD_Signal |-> Cell(bt_data[j].MACD_Signal)]],
   predictions |-> [j \in 1..Len(bt_data) |-> Cell(bt_data[j].Predicted_Price)]]

\* run_pipeline.py was not started
NoPipeline == [skip_fetch |-> FALSE, skip_train |-> FALSE, pc |-> "None",
               calling |-> FALSE,
               started |-> <<>>, completed |-> <<>>, stdout |-> <<>>,
               result |-> "None", raised |-> "None", status |-> -1]

\* optimize-prompt.py was not started
NoOptimizer == [stdin |-> [kind |-> "none"], stdout |-> <<>>, status |-> -1,
                state |-> "None"]

\* fetch_ohlcv was not called
NoFetcher == [state |-> "None", start_dt |-> 0, end_dt |-> 0, current_dt |-> 0,
              all_candles |-> <<>>, requests |-> 0, df |-> <<>>]

\* improve-prompt.py was not started
NoHook == [script |-> "scripts", stdin |-> [kind |-> "none"], stdout |-> <<>>,
           stderr |-> <<>>, status |-> -1, state |-> "None"]

\* optimize_strategy was not called
NoSearch == [state |-> "None", param_combos |-> <<>>, heatmap |-> <<>>,
             runs |-> <<>>, best |-> None]

\* no PerformanceAnalyzer was created
NoAnalyzer == [trades_df |-> None, equity_curve |-> None, metrics |-> None,
               state |-> "None"]

Init ==
  /\ \E len \in 1..MaxBars : data \in [1..len -> Bars]
  /\ finalize_trades \in BOOLEAN
  /\ pc = "Idle"
  /\ n = Len(data)
  /\ predictions = <<>>
  /\ current_price = <<>>
  /\ rsi = <<>>
  /\ macd = <<>>
  /\ macd_signal = <<>>
  /\ cash = StartCash * Scale
  /\ orders = <<>>
  /\ trades = <<>>
  /\ closed_trades = <<>>
  /\ next_id = 1
  /\ equity = [j \in 1..Len(data) |-> NaN]
  /\ equity_curve = <<>>
  /\ actions = <<>>
  /\ results = None
  /\ returned = <<>>
  /\ raw = Unprepared(data)
  /\ analyzer = NoAnalyzer
  /\ search = NoSearch
  /\ hook = NoHook
  /\ pipeline = NoPipeline
  /\ optimizer = NoOptimizer
  /\ fetcher = NoFetcher

\* Backtest.run up to the loop: strategy.init() captures the data arrays at
\* their full length, then the loop starts at bar index start (0-based)
StrategyInit ==
  /\ pc = "Idle"
  /\ predictions' = [j \in 1..n |-> data[j].Predicted_Price]
  /\ current_price' = [j \in 1..n |-> data[j].Close]
  /\ rsi' = [j \in 1..n |-> data[j].RSI]
  /\ macd' = [j \in 1..n |-> data[j].MACD]
  /\ macd_signal' = [j \in 1..n |-> data[j].MACD_Signal]
  /\ IF start < Len(data)
     THEN n' = start + 1 /\ pc' = "broker"
     ELSE n' = n /\ pc' = "finalize"
  /\ UNCHANGED <<data, finalize_trades, cash, orders, trades, closed_trades,
                 next_id, equity, equity_curve, actions, results, returned, raw, analyzer, search, hook, pipeline, optimizer, fetcher>>

\* loop body, first half: data._set_length(i + 1) was done; broker.next()
BrokerNext ==
  /\ pc = "broker"
  /\ LET r == BrokerStep(BrokerState, equity, n)
     IN /\ Commit(r.st)
        /\ equity' = r.equity
        /\ pc' = IF r.out_of_money THEN "stats" ELSE "strategy"
  /\ UNCHANGED <<data, finalize_trades, n, predictions, current_price, rsi,
                 macd, macd_signal, equity_curve, actions, results, returned, raw, analyzer, search, hook, pipeline, optimizer, fetcher>>

\* loop body, second half: strategy.next(), then the loop moves on
StrategyNext ==
  /\ pc = "strategy"
  /\ LET decision == Decide(n, trades)
         st == BrokerState
         after == IF decision = "EnterLong" THEN OpenLong(st, n)
                  ELSE IF decision = "EnterShort" THEN OpenShort(st, n)
                  ELSE IF decision = "Exit" THEN PositionClose(st)
                  ELSE st
     IN /\ Commit(after)
        /\ actions' = Append(actions, [bar |-> n, side |-> Side(trades),
                                       closed |-> Len(closed_trades),
                                       action |-> decision])
  /\ IF n < Len(data)
     THEN n' = n + 1 /\ pc' = "broker"
     ELSE n' = n /\ pc' = "finalize"
  /\ UNCHANGED <<data, finalize_trades, predictions, current_price, rsi, macd,
                 macd_signal, equity, equity_curve, results, returned, raw, analyzer, search, hook, pipeline, optimizer, fetcher>>

\* the else branch of the loop: with finalize_trades the open trades get
\* close orders and the broker runs once more on the last bar
Finalize ==
  /\ pc = "finalize"
  /\ IF finalize_trades
     THEN LET st == CloseAll(BrokerState, Reverse(trades), "finalize")
              r == IF start < Len(data)
                   THEN BrokerStep(st, equity, n)
                   ELSE [st |-> st, equity |-> equity, out_of_money |-> FALSE]
          IN Commit(r.st) /\ equity' = r.equity
     ELSE UNCHANGED <<cash, orders, trades, closed_trades, next_id, equity>>
  /\ pc' = "stats"
  /\ UNCHANGED <<data, finalize_trades, n, predictions, current_price, rsi,
                 macd, macd_signal, equity_curve, actions, results, returned, raw, analyzer, search, hook, pipeline, optimizer, fetcher>>

\* data._set_length(len(data)); the equity curve of the results; run()
\* returns them and run_backtest stores and returns them
ComputeStats ==
  /\ pc = "stats"
  /\ n' = Len(data)
  /\ equity_curve' = [j \in 1..Len(data) |->
                        [time |-> j, equity |-> FillEquity(equity, cash)[j]]]
  /\ results' = [trades |-> closed_trades, equity_curve |-> equity_curve',
                 final_cash |-> cash, actions |-> actions]
  /\ returned' = Append(returned, results')
  /\ pc' = "Finished"
  /\ UNCHANGED <<data, finalize_trades, predictions, current_price, rsi, macd,
                 macd_signal, cash, orders, trades, closed_trades, next_id,
                 equity, actions, raw, analyzer, search, hook, pipeline, optimizer, fetcher>>

\* run_backtest called again on the same runner with the same data: a new
\* Backtest, a new strategy object, a new equity array
RunBacktest ==
  /\ pc = "Finished"
  /\ Len(returned) < MaxRuns
  /\ Commit(NewBacktest(BrokerState))
  /\ pc' = "Idle"
  /\ n' = Len(data)
  /\ predictions' = <<>>
  /\ current_price' = <<>>
  /\ rsi' = <<>>
  /\ macd' = <<>>
  /\ macd_signal' = <<>>
  /\ equity' = [j \in 1..Len(data) |-> NaN]
  /\ equity_curve' = <<>>
  /\ actions' = <<>>
  /\ UNCHANGED <<data, finalize_trades, results, returned, raw, analyzer, search, hook, pipeline, optimizer, fetcher>>

Next ==
  \/ StrategyInit
  \/ BrokerNext
  \/ StrategyNext
  \/ Finalize
  \/ ComputeStats

Spec == Init /\ [][Next]_vars

\* the run is one thread of control: it keeps taking its next step
FairSpec == Spec /\ WF_vars(Next)

\* the state before prepare_data_for_backtest is called
InitRaw ==
  /\ \E len \in 0..MaxRaw, plen \in 0..(MaxRaw + 1) :
       raw \in [df : [1..len -> RawRows], predictions : [1..plen -> Forecasts]]
  /\ finalize_trades \in BOOLEAN
  /\ pc = "Start"
  /\ data = <<>>
  /\ n = 0
  /\ predictions = <<>>
  /\ current_price = <<>>
  /\ rsi = <<>>
  /\ macd = <<>>
  /\ macd_signal = <<>>
  /\ cash = StartCash * Scale
  /\ orders = <<>>
  /\ trades = <<>>
  /\ closed_trades = <<>>
  /\ next_id = 1
  /\ equity = <<>>
  /\ equity_curve = <<>>
  /\ actions = <<>>
  /\ results = None
  /\ returned = <<>>
  /\ analyzer = NoAnalyzer
  /\ search = NoSearch
  /\ hook = NoHook
  /\ pipeline = NoPipeline
  /\ optimizer = NoOptimizer
  /\ fetcher = NoFetcher

\* bt_data = runner.prepare_data_for_backtest(df, predictions)
PrepareData ==
  /\ pc = "Start"
  /\ IF PaddingRaises(raw.df, raw.predictions)
     THEN pc' = "ValueError" /\ data' = data
     ELSE pc' = "Prepared" /\ data' = PrepareDataForBacktest(raw.df, raw.predictions)
  /\ UNCHANGED <<finalize_trades, n, predictions, current_price, rsi, macd,
                 macd_signal, cash, orders, trades, closed_trades, next_id,
                 equity, equity_curve, actions, results, returned, raw, analyzer, search, hook, pipeline, optimizer, fetcher>>

\* run_backtest(bt_data) up to self.bt.run(): Backtest(...) raises ValueError
\* on an empty frame
CallRunBacktest ==
  /\ pc = "Prepared"
  /\ IF Len(data) = 0
     THEN /\ pc' = "ValueError"
          /\ UNCHANGED <<n, cash, orders, trades, closed_trades, next_id, equity>>
     ELSE /\ pc' = "Idle"
          /\ n' = Len(data)
          /\ Commit(NewBacktest(BrokerState))
          /\ equity' = [j \in 1..Len(data) |-> NaN]
  /\ UNCHANGED <<data, finalize_trades, predictions, current_price, rsi, macd,
                 macd_signal, equity_curve, actions, results, returned, raw, analyzer, search, hook, pipeline, optimizer, fetcher>>

NextPipeline == PrepareData \/ CallRunBacktest \/ Next

\* main(): prepare the data, then run the backtest
PipelineSpec == InitRaw /\ [][NextPipeline]_vars

\* a runner on which run_backtest is called up to MaxRuns times
NextRunner == Next \/ RunBacktest

RunnerSpec == Init /\ [][NextRunner]_vars

(* ------------------------ the performance analyzer --------------------- *)
\* A metric that is a quotient is kept as the fraction num / den; den = 0 is
\* float('inf').
Infinity == [num |-> 1, den |-> 0]
Zero == [num |-> 0, den |-> 1]

\* the PnL column of the trade logs and the values of the equity curves the
\* analyzer is given
PnLValues == {-20, 0, 10, 30}
EquityValues == {90, 100, 110}

\* the empty dictionary
EmptyDict == <<>>

RECURSIVE Sum(_)
\* Series.sum()
Sum(s) == IF s = <<>> THEN 0 ELSE Head(s) + Sum(Tail(s))

\* Series.max() / Series.min() of a non-empty series
SeriesMax(s) == CHOOSE x \in { s[j] : j \in 1..Len(s) } : \A j \in 1..Len(s) : s[j] <= x
SeriesMin(s) == CHOOSE x \in { s[j] : j \in 1..Len(s) } : \A j \in 1..Len(s) : s[j] >= x

\* Series.mean() of a non-empty series
Mean(s) == [num |-> Sum(s), den |-> Len(s)]

\* trades[trades['PnL'] > 0]['PnL'] and trades[trades['PnL'] < 0]['PnL']
Wins(pnl) == SelectSeq(pnl, LAMBDA p : p > 0)
Losses(pnl) == SelectSeq(pnl, LAMBDA p : p < 0)

\* equity_curve.expanding().max() at point j
RunningMax(eq, j) == SeriesMax(SubSeq(eq, 1, j))

\* drawdown = (equity_curve - running_max) / running_max * 100, at point j
Drawdown(eq, j) ==
  [num |-> (eq[j] - RunningMax(eq, j)) * 100, den |-> RunningMax(eq, j)]

\* a <= b for fractions with positive denominators
FracLeq(a, b) == a.num * b.den <= b.num * a.den

\* drawdown.min()
DrawdownMin(eq) ==
  LET j == CHOOSE m \in 1..Len(eq) :
             \A x \in 1..Len(eq) : FracLeq(Drawdown(eq, m), Drawdown(eq, x))
  IN Drawdown(eq, j)

RECURSIVE StreakEndingAt(_, _, _)
\* the length of the group of equal 'Win' values that ends at trade j, when
\* its value is v
StreakEndingAt(win, j, v) ==
  IF j = 0 THEN 0
  ELSE IF win[j] # v THEN 0
  ELSE 1 + StreakEndingAt(win, j - 1, v)

\* trades[trades['Win'] == v].groupby('Streak').size().max(), 0 when there is
\* no such group
MaxStreak(win, v) ==
  LET sizes == { StreakEndingAt(win, j, v) : j \in 1..Len(win) } \cup {0}
  IN CHOOSE x \in sizes : \A y \in sizes : y <= x

\* PerformanceAnalyzer.calculate_metrics
CalculateMetrics(trades_df, curve) ==
  IF trades_df = None \/ Len(trades_df) = 0 THEN EmptyDict
  ELSE
  LET trades_ == trades_df
      total_trades == Len(trades_)
      winning_trades == Len(Wins(trades_))
      losing_trades == Len(Losses(trades_))
      win_rate == IF total_trades > 0
                  THEN [num |-> winning_trades * 100, den |-> total_trades]
                  ELSE Zero
      total_pnl == Sum(trades_)
      avg_win == IF winning_trades > 0 THEN Mean(Wins(trades_)) ELSE Zero
      avg_loss == IF losing_trades > 0 THEN Mean(Losses(trades_)) ELSE Zero
      largest_win == IF total_trades > 0 THEN SeriesMax(trades_) ELSE 0
      largest_loss == IF total_trades > 0 THEN SeriesMin(trades_) ELSE 0
      profit_factor ==
        IF losing_trades > 0 /\ avg_loss.num # 0
        THEN [num |-> Abs(avg_win.num * winning_trades * avg_loss.den),
              den |-> Abs(avg_loss.num * losing_trades * avg_win.den)]
        ELSE Infinity
      max_drawdown == IF curve # None THEN DrawdownMin(curve) ELSE Zero
      win == [j \in 1..Len(trades_) |-> trades_[j] > 0]
      max_consecutive_wins == MaxStreak(win, TRUE)
      max_consecutive_losses == MaxStreak(win, FALSE)
  IN [total_trades |-> total_trades, winning_trades |-> winning_trades,
      losing_trades |-> losing_trades, win_rate_pct |-> win_rate,
      total_pnl |-> total_pnl, avg_win |-> avg_win, avg_loss |-> avg_loss,
      largest_win |-> largest_win, largest_loss |-> largest_loss,
      profit_factor |-> profit_factor, max_drawdown_pct |-> max_drawdown,
      max_consecutive_wins |-> max_consecutive_wins,
      max_consecutive_losses |-> max_consecutive_losses]

\* the variables of the backtest runner
runnerVars == <<data, finalize_trades, pc, n, predictions, current_price, rsi,
                macd, macd_signal, cash, orders, trades, closed_trades, next_id,
                equity, equity_curve, actions, results, returned, raw>>

\* PerformanceAnalyzer(trades_df, equity_curve), nothing else running
InitAnalyzer ==
  /\ \E len \in 0..MaxTrades, points \in 0..MaxPoints :
       analyzer \in [trades_df : [1..len -> PnLValues],
                     equity_curve : IF points = 0 THEN {None}
                                    ELSE [1..points -> EquityValues],
                     metrics : {None}, state : {"Created"}]
  /\ finalize_trades = FALSE
  /\ pc = "Start"
  /\ data = <<>>
  /\ n = 0
  /\ predictions = <<>>
  /\ current_price = <<>>
  /\ rsi = <<>>
  /\ macd = <<>>
  /\ macd_signal = <<>>
  /\ cash = StartCash * Scale
  /\ orders = <<>>
  /\ trades = <<>>
  /\ closed_trades = <<>>
  /\ next_id = 1
  /\ equity = <<>>
  /\ equity_curve = <<>>
  /\ actions = <<>>
  /\ results = None
  /\ returned = <<>>
  /\ raw = [df |-> <<>>, predictions |-> <<>>]
  /\ search = NoSearch
  /\ hook = NoHook
  /\ pipeline = NoPipeline
  /\ optimizer = NoOptimizer
  /\ fetcher = NoFetcher

\* metrics = analyzer.calculate_metrics()
CallCalculateMetrics ==
  /\ analyzer.state = "Created"
  /\ analyzer' = [analyzer EXCEPT
                    !.metrics = CalculateMetrics(analyzer.trades_df,
                                                 analyzer.equity_curve),
                    !.state = "Calculated"]
  /\ UNCHANGED <<runnerVars, search, hook, pipeline, optimizer, fetcher>>

\* analyzer.generate_report(): the metrics are computed and written, then the
\* summary is printed from metrics['total_trades'], ...
GenerateReport ==
  /\ analyzer.state = "Created"
  /\ LET metrics == CalculateMetrics(analyzer.trades_df, analyzer.equity_curve)
     IN analyzer' = [analyzer EXCEPT
                       !.metrics = metrics,
                       !.state = IF "total_trades" \in DOMAIN metrics
                                 THEN "Reported" ELSE "KeyError"]
  /\ UNCHANGED <<runnerVars, search, hook, pipeline, optimizer, fetcher>>

NextAnalyzer == CallCalculateMetrics \/ GenerateReport

AnalyzerSpec == InitAnalyzer /\ [][NextAnalyzer]_vars

(* -------------------------- the parameter search ----------------------- *)
\* The parameter grid of optimize_strategy, each list cut to its first values
\* (rates in 1/Scale), in the order of the keyword arguments.
PredictionThresholdGrid == <<1, 2>>
StopLossGrid == <<3, 5, 7>>
TakeProfitGrid == <<6, 10>>
PositionSizeGrid == <<500>>

\* what maximize(stats) can be for a run: NaN for a run without a trade, else
\* the Sharpe ratio of the run, as a cell
Scores == { NaN, Cell(0), Cell(1) }

\* itertools.product of the four lists: the last list varies fastest
Product ==
  LET a == Len(PredictionThresholdGrid)
      b == Len(StopLossGrid)
      c == Len(TakeProfitGrid)
      d == Len(PositionSizeGrid)
  IN [k \in 1..(a * b * c * d) |->
        LET z == k - 1 IN
        [prediction_threshold |-> PredictionThresholdGrid[(z \div (b * c * d)) + 1],
         stop_loss_pct |-> StopLossGrid[((z \div (c * d)) % b) + 1],
         take_profit_pct |-> TakeProfitGrid[((z \div d) % c) + 1],
         position_size |-> PositionSizeGrid[(z % d) + 1]]]

\* constraint=lambda p: p.take_profit_pct > p.stop_loss_pct
Constraint(p) == p.take_profit_pct > p.stop_loss_pct

\* the grid without the constraint applied
ParamCombosUnfiltered == Product

\* param_combos: the combinations of the grid that pass the constraint
ParamCombos == SelectSeq(Product, Constraint)

\* idxmax that keeps the last of equal maxima
IdxMaxLast(heatmap) ==
  LET scored == { j \in 1..Len(heatmap) : heatmap[j] # NaN }
  IN IF scored = {} THEN 0
     ELSE CHOOSE j \in scored :
            /\ \A m \in scored : Value(heatmap[m]) <= Value(heatmap[j])
            /\ \A m \in scored : Value(heatmap[m]) = Value(heatmap[j]) => m <= j

\* heatmap.idxmax(): the first position of the largest score, NaN skipped;
\* 0 stands for the null it gives when every score is NaN
IdxMax(heatmap) ==
  LET scored == { j \in 1..Len(heatmap) : heatmap[j] # NaN }
  IN IF scored = {} THEN 0
     ELSE CHOOSE j \in scored :
            /\ \A m \in scored : Value(heatmap[m]) <= Value(heatmap[j])
            /\ \A m \in scored : Value(heatmap[m]) = Value(heatmap[j]) => j <= m

\* optimize_strategy(data) called, nothing else running
InitSearch ==
  /\ search = [NoSearch EXCEPT !.state = "Called"]
  /\ hook = NoHook
  /\ pipeline = NoPipeline
  /\ optimizer = NoOptimizer
  /\ fetcher = NoFetcher
  /\ analyzer = NoAnalyzer
  /\ finalize_trades = FALSE
  /\ pc = "Start"
  /\ data = <<>>
  /\ n = 0
  /\ predictions = <<>>
  /\ current_price = <<>>
  /\ rsi = <<>>
  /\ macd = <<>>
  /\ macd_signal = <<>>
  /\ cash = StartCash * Scale
  /\ orders = <<>>
  /\ trades = <<>>
  /\ closed_trades = <<>>
  /\ next_id = 1
  /\ equity = <<>>
  /\ equity_curve = <<>>
  /\ actions = <<>>
  /\ results = None
  /\ returned = <<>>
  /\ raw = [df |-> <<>>, predictions |-> <<>>]

\* bt.optimize(...): the grid is built and filtered; no admissible
\* combination is a ValueError
Optimize ==
  /\ search.state = "Called"
  /\ search' = [search EXCEPT
                  !.param_combos = ParamCombos,
                  !.state = IF ParamCombos = <<>> THEN "ValueError" ELSE "Sweeping"]
  /\ UNCHANGED <<runnerVars, analyzer, hook, pipeline, optimizer, fetcher>>

\* the run of the next admissible combination and its cell of the heatmap
RunCombination ==
  /\ search.state = "Sweeping"
  /\ Len(search.heatmap) < Len(search.param_combos)
  /\ \E score \in Scores :
       search' = [search EXCEPT
                    !.heatmap = Append(@, score),
                    !.runs = Append(@, search.param_combos[Len(search.heatmap) + 1])]
  /\ UNCHANGED <<runnerVars, analyzer, hook, pipeline, optimizer, fetcher>>

\* best_params = heatmap.idxmax(); the best combination (the first one when
\* no run made a trade) is run again and its results are returned
ReturnBest ==
  /\ search.state = "Sweeping"
  /\ Len(search.heatmap) = Len(search.param_combos)
  /\ LET best_params == IdxMax(search.heatmap)
         chosen == IF best_params = 0 THEN search.param_combos[1]
                   ELSE search.param_combos[best_params]
     IN search' = [search EXCEPT
                     !.runs = Append(@, chosen),
                     !.best = <<chosen>>,
                     !.state = "Returned"]
  /\ UNCHANGED <<runnerVars, analyzer, hook, pipeline, optimizer, fetcher>>

NextSearch == Optimize \/ RunCombination \/ ReturnBest

SearchSpec == InitSearch /\ [][NextSearch]_vars

(* ----------------------------- run_pipeline ---------------------------- *)
\* the steps in the order of the function body
Steps == <<"fetch", "preprocess", "train", "backtest">>

\* how a step's main() can end: it returns, raises an Exception (a missing
\* config file, a failed request), calls sys.exit(1) (no data file, no
\* predictions) or is interrupted from the keyboard
Outcomes == {"ok", "Exception", "SystemExit", "KeyboardInterrupt"}

\* fetch_data.main has no sys.exit; preprocess, train and backtest leave with
\* sys.exit(1) when their input files are missing
OutcomesOf(step) == IF step = "fetch" THEN Outcomes \ {"SystemExit"} ELSE Outcomes

\* the message of each step's except clause
ErrorMessage(step) ==
  CASE step = "fetch" -> "Error fetching data"
    [] step = "preprocess" -> "Error preprocessing data"
    [] step = "train" -> "Error training model"
    [] step = "backtest" -> "Error running backtest"

\* the step is skipped by its flag
Skipped(p, step) ==
  \/ step = "fetch" /\ p.skip_fetch
  \/ step = "train" /\ p.skip_train

\* the position after step number k: the next step, or the end of the body
After(k) == IF k < Len(Steps) THEN Steps[k + 1] ELSE "complete"

\* number of a step
StepNo(step) == CHOOSE k \in 1..Len(Steps) : Steps[k] = step

\* the script is started with its command line
InitPipeline ==
  /\ \E sf \in BOOLEAN, st \in BOOLEAN :
       pipeline = [NoPipeline EXCEPT !.skip_fetch = sf, !.skip_train = st,
                                     !.pc = "main"]
  /\ hook = NoHook
  /\ optimizer = NoOptimizer
  /\ fetcher = NoFetcher
  /\ search = NoSearch
  /\ analyzer = NoAnalyzer
  /\ finalize_trades = FALSE
  /\ pc = "Start"
  /\ data = <<>>
  /\ n = 0
  /\ predictions = <<>>
  /\ current_price = <<>>
  /\ rsi = <<>>
  /\ macd = <<>>
  /\ macd_signal = <<>>
  /\ cash = StartCash * Scale
  /\ orders = <<>>
  /\ trades = <<>>
  /\ closed_trades = <<>>
  /\ next_id = 1
  /\ equity = <<>>
  /\ equity_curve = <<>>
  /\ actions = <<>>
  /\ results = None
  /\ returned = <<>>
  /\ raw = [df |-> <<>>, predictions |-> <<>>]

pipelineOthers == <<runnerVars, analyzer, search, hook, optimizer, fetcher>>

\* main parses the arguments and calls run_pipeline, which prints its banner
CallRunPipeline ==
  /\ pipeline.pc = "main"
  /\ pipeline' = [pipeline EXCEPT !.pc = "fetch",
                                  !.stdout = <<"CRYPTO SCALPING BOT - COMPLETE PIPELINE">>]
  /\ UNCHANGED pipelineOthers

\* a step that its flag skips: a message, then the next step
SkipStep ==
  /\ pipeline.pc \in {"fetch", "train"}
  /\ ~pipeline.calling
  /\ Skipped(pipeline, pipeline.pc)
  /\ pipeline' = [pipeline EXCEPT
       !.pc = After(StepNo(pipeline.pc)),
       !.stdout = Append(@, IF pipeline.pc = "fetch"
                            THEN "Skipping data fetch (using existing data)"
                            ELSE "Skipping model training (using existing model)")]
  /\ UNCHANGED pipelineOthers

\* the header of a step is printed and its main() is called
StartStep ==
  /\ pipeline.pc \in {Steps[k] : k \in 1..Len(Steps)}
  /\ ~pipeline.calling
  /\ ~Skipped(pipeline, pipeline.pc)
  /\ pipeline' = [pipeline EXCEPT !.calling = TRUE,
                                  !.started = Append(@, pipeline.pc)]
  /\ UNCHANGED pipelineOthers

\* the step's main() ends: on return the body goes on; an Exception is caught,
\* reported and answered with False; SystemExit and KeyboardInterrupt are not
\* Exceptions and leave run_pipeline
EndStep ==
  /\ pipeline.calling
  /\ LET step == pipeline.pc
     IN \E outcome \in OutcomesOf(step) :
          pipeline' =
            CASE outcome = "ok" ->
                   [pipeline EXCEPT !.pc = After(StepNo(step)), !.calling = FALSE,
                                    !.completed = Append(@, step)]
              [] outcome = "Exception" ->
                   [pipeline EXCEPT !.pc = "returned", !.calling = FALSE,
                                    !.result = "False",
                                    !.stdout = Append(@, ErrorMessage(step))]
              [] OTHER ->
                   [pipeline EXCEPT !.pc = "raised", !.calling = FALSE,
                                    !.raised = outcome]
  /\ UNCHANGED pipelineOthers

\* the end of the body: the closing messages and return True
ReturnTrue ==
  /\ pipeline.pc = "complete"
  /\ pipeline' = [pipeline EXCEPT !.pc = "returned", !.result = "True",
                                  !.stdout = Append(@, "PIPELINE COMPLETE!")]
  /\ UNCHANGED pipelineOthers

\* main: sys.exit(0 if success else 1)
Exit ==
  /\ pipeline.pc = "returned"
  /\ pipeline' = [pipeline EXCEPT !.pc = "exited",
                                  !.status = IF pipeline.result = "True" THEN 0 ELSE 1]
  /\ UNCHANGED pipelineOthers

\* an exception that left run_pipeline leaves main too: sys.exit(1) of a step
\* ends the process with status 1, a keyboard interrupt with a traceback
Propagate ==
  /\ pipeline.pc = "raised"
  /\ pipeline' = [pipeline EXCEPT !.pc = "exited",
                                  !.status = IF pipeline.raised = "SystemExit" THEN 1 ELSE 130]
  /\ UNCHANGED pipelineOthers

NextRunPipeline ==
  CallRunPipeline \/ SkipStep \/ StartStep \/ EndStep \/ ReturnTrue \/ Exit \/ Propagate

RunPipelineSpec == InitPipeline /\ [][NextRunPipeline]_vars

(* --------------------------- the prompt hook --------------------------- *)
\* A string is a sequence of characters; the fixed text of the wrapper before
\* and after the embedded prompt is one element each.
Chars == {"*", "/", "#", " ", "a", "&", "\\", "\n", "\""}
Whitespace == {" ", "\n"}
WrapperHead == "<prompt_evaluation>\n<original_request>"
WrapperTail == "</original_request>\n\n<evaluation_framework> ... </prompt_evaluation>"

\* the wrapper of hooks/improve-prompt.py, which puts the prompt in quotes
PlainHead == "PROMPT EVALUATION\n\nOriginal user request: \""
PlainTail == "\"\n\nEVALUATE: Is this prompt clear enough to execute ..."

\* the two copies of the hook script
Scripts == {"scripts", "hooks"}

\* str.startswith(c)
StartsWith(s, c) == s # <<>> /\ Head(s) = c

RECURSIVE LStrip(_)
LStrip(s) == IF s # <<>> /\ Head(s) \in Whitespace THEN LStrip(Tail(s)) ELSE s

RECURSIVE RStrip(_)
RStrip(s) ==
  IF s # <<>> /\ s[Len(s)] \in Whitespace THEN RStrip(SubSeq(s, 1, Len(s) - 1)) ELSE s

\* str.strip()
Strip(s) == RStrip(LStrip(s))

RECURSIVE EscapeForXml(_)
\* escape_for_xml: backslash doubled, & < > replaced by their entities
EscapeForXml(text) ==
  IF text = <<>> THEN <<>>
  ELSE LET c == Head(text)
           e == IF c = "\\" THEN <<"\\", "\\">>
                ELSE IF c = "&" THEN <<"&", "a", "m", "p", ";">>
                ELSE IF c = "<" THEN <<"&", "l", "t", ";">>
                ELSE IF c = ">" THEN <<"&", "g", "t", ";">>
                ELSE <<c>>
       IN e \o EscapeForXml(Tail(text))

RECURSIVE EscapeQuotes(_)
\* hooks/improve-prompt.py: backslash doubled, double quote given a backslash
EscapeQuotes(text) ==
  IF text = <<>> THEN <<>>
  ELSE LET c == Head(text)
           e == IF c = "\\" THEN <<"\\", "\\">>
                ELSE IF c = "\"" THEN <<"\\", "\"">>
                ELSE <<c>>
       IN e \o EscapeQuotes(Tail(text))

\* print(text): the text and a newline on standard output
Printed(text) == text \o <<"\n">>

\* clean_prompt = prompt[1:] without the strip()
CleanPromptNoStrip(prompt) == Tail(prompt)

\* clean_prompt = prompt[1:].strip()
CleanPrompt(prompt) == Strip(Tail(prompt))

\* wrapped_prompt
WrappedPrompt(prompt) == <<WrapperHead>> \o EscapeForXml(prompt) \o <<WrapperTail>>

\* wrapped_prompt of hooks/improve-prompt.py
WrappedPromptPlain(prompt) == <<PlainHead>> \o EscapeQuotes(prompt) \o <<PlainTail>>

\* what hooks/improve-prompt.py prints for a prompt
HookOutputPlain(prompt) ==
  IF StartsWith(prompt, "*") THEN CleanPrompt(prompt)
  ELSE IF StartsWith(prompt, "/") THEN prompt
  ELSE IF StartsWith(prompt, "#") THEN prompt
  ELSE WrappedPromptPlain(prompt)

\* the script without its check for the '#' prefix
HookOutputNoHashBypass(prompt) ==
  IF StartsWith(prompt, "*") THEN CleanPrompt(prompt)
  ELSE IF StartsWith(prompt, "/") THEN prompt
  ELSE WrappedPrompt(prompt)

\* what the script prints for a prompt
HookOutput(prompt) ==
  IF StartsWith(prompt, "*") THEN CleanPrompt(prompt)
  ELSE IF StartsWith(prompt, "/") THEN prompt
  ELSE IF StartsWith(prompt, "#") THEN prompt
  ELSE WrappedPrompt(prompt)

\* the hook is started with its standard input: a JSON object with a prompt,
\* one without, or text that is not JSON
InitHook ==
  /\ \E len \in 0..MaxPromptLen :
       \E stdin \in [kind : {"prompt"}, prompt : [1..len -> Chars]]
                      \cup {[kind |-> "no_prompt"], [kind |-> "invalid"]} :
       \E script \in Scripts :
         hook = [NoHook EXCEPT !.script = script, !.stdin = stdin,
                               !.state = "Started"]
  /\ pipeline = NoPipeline
  /\ optimizer = NoOptimizer
  /\ fetcher = NoFetcher
  /\ search = NoSearch
  /\ analyzer = NoAnalyzer
  /\ finalize_trades = FALSE
  /\ pc = "Start"
  /\ data = <<>>
  /\ n = 0
  /\ predictions = <<>>
  /\ current_price = <<>>
  /\ rsi = <<>>
  /\ macd = <<>>
  /\ macd_signal = <<>>
  /\ cash = StartCash * Scale
  /\ orders = <<>>
  /\ trades = <<>>
  /\ closed_trades = <<>>
  /\ next_id = 1
  /\ equity = <<>>
  /\ equity_curve = <<>>
  /\ actions = <<>>
  /\ results = None
  /\ returned = <<>>
  /\ raw = [df |-> <<>>, predictions |-> <<>>]

\* json.load(sys.stdin) fails: the error goes to stderr, exit status 1
InvalidInput ==
  /\ hook.state = "Started"
  /\ hook.stdin.kind = "invalid"
  /\ hook' = [hook EXCEPT !.stderr = <<"Error: Invalid JSON input">>,
                          !.status = 1, !.state = "Exited"]
  /\ UNCHANGED <<runnerVars, analyzer, search, pipeline, optimizer, fetcher>>

\* the script body: prompt = input_data.get("prompt", ""), the bypass checks,
\* the wrapper, print and sys.exit(0)
RunHook ==
  /\ hook.state = "Started"
  /\ hook.stdin.kind # "invalid"
  /\ LET prompt == IF hook.stdin.kind = "prompt" THEN hook.stdin.prompt ELSE <<>>
         text == IF hook.script = "hooks" THEN HookOutputPlain(prompt)
                 ELSE HookOutput(prompt)
     IN hook' = [hook EXCEPT !.stdout = Printed(text),
                             !.status = 0, !.state = "Exited"]
  /\ UNCHANGED <<runnerVars, analyzer, search, pipeline, optimizer, fetcher>>

NextHook == InvalidInput \/ RunHook

HookSpec == InitHook /\ [][NextHook]_vars

(* ------------------------------ fetch_ohlcv ---------------------------- *)
\* candles per request in the model (the limit argument)
limit == 2

\* milliseconds between two candles
CandleMs == 60000

\* candle timestamps in milliseconds
TimestampsMs == { k * CandleMs : k \in 0..MaxTime }

\* datetime.fromtimestamp(ms / 1000), a datetime counted in microseconds
FromMs(ms) == ms * 1000

\* what exchange.fetch_ohlcv can return: up to limit candles in ascending
\* order of time, each a timestamp (their prices play no part)
Responses ==
  { r \in UNION { [1..len -> TimestampsMs] : len \in 0..limit } :
      \A j \in 1..Len(r) : j > 1 => r[j - 1] < r[j] }

RECURSIVE SortedSeq(_)
\* the members of a set of numbers in ascending order
SortedSeq(set) ==
  IF set = {} THEN <<>>
  ELSE LET least == CHOOSE x \in set : \A y \in set : x <= y
       IN <<least>> \o SortedSeq(set \ {least})

\* drop_duplicates(subset=['timestamp']).sort_values('timestamp') and the
\* filter to the date range
Frame(candles, start_dt, end_dt) ==
  SortedSeq({ candles[j] : j \in { m \in 1..Len(candles) :
                FromMs(candles[m]) >= start_dt /\ FromMs(candles[m]) <= end_dt } })

\* fetch_ohlcv is called with a date range
InitFetcher ==
  /\ \E s \in TimestampsMs, e \in TimestampsMs :
       fetcher = [NoFetcher EXCEPT !.state = "Loop", !.start_dt = FromMs(s),
                                   !.end_dt = FromMs(e), !.current_dt = FromMs(s)]
  /\ hook = NoHook
  /\ pipeline = NoPipeline
  /\ optimizer = NoOptimizer
  /\ search = NoSearch
  /\ analyzer = NoAnalyzer
  /\ finalize_trades = FALSE
  /\ pc = "Start"
  /\ data = <<>>
  /\ n = 0
  /\ predictions = <<>>
  /\ current_price = <<>>
  /\ rsi = <<>>
  /\ macd = <<>>
  /\ macd_signal = <<>>
  /\ cash = StartCash * Scale
  /\ orders = <<>>
  /\ trades = <<>>
  /\ closed_trades = <<>>
  /\ next_id = 1
  /\ equity = <<>>
  /\ equity_curve = <<>>
  /\ actions = <<>>
  /\ results = None
  /\ returned = <<>>
  /\ raw = [df |-> <<>>, predictions |-> <<>>]

fetcherOthers == <<runnerVars, analyzer, search, hook, pipeline, optimizer>>

\* one pass of the while body: the request raises, returns nothing, or
\* returns candles, which are appended and whose last timestamp becomes
\* current_dt
Iterate ==
  /\ fetcher.state = "Loop"
  /\ fetcher.current_dt < fetcher.end_dt
  /\ fetcher.requests < MaxRequests
  /\ \/ \* except Exception: break
        fetcher' = [fetcher EXCEPT !.state = "Left", !.requests = @ + 1]
     \/ \E candles \in Responses :
          fetcher' =
            IF candles = <<>>
            THEN [fetcher EXCEPT !.state = "Left", !.requests = @ + 1]
            ELSE [fetcher EXCEPT
                    !.all_candles = @ \o candles,
                    !.current_dt = FromMs(candles[Len(candles)]),
                    !.requests = @ + 1]
  /\ UNCHANGED fetcherOthers

\* the while condition is false
LeaveLoop ==
  /\ fetcher.state = "Loop"
  /\ ~(fetcher.current_dt < fetcher.end_dt)
  /\ fetcher' = [fetcher EXCEPT !.state = "Left"]
  /\ UNCHANGED fetcherOthers

\* after the loop: the frame is built, cleaned, filtered and returned
BuildFrame ==
  /\ fetcher.state = "Left"
  /\ fetcher' = [fetcher EXCEPT
                   !.df = Frame(fetcher.all_candles, fetcher.start_dt, fetcher.end_dt),
                   !.state = "Returned"]
  /\ UNCHANGED fetcherOthers

NextFetcher == Iterate \/ LeaveLoop \/ BuildFrame

FetcherSpec == InitFetcher /\ [][NextFetcher]_vars

(* -------------------------- the prompt optimizer ----------------------- *)
MIN_WORDS == 5
DETAILED_THRESHOLD == 15

\* FILE_EXTENSIONS
FILE_EXTENSIONS ==
  { <<".", "t", "s">>, <<".", "t", "s", "x">>, <<".", "p", "y">>, <<".", "j", "s">>,
    <<".", "j", "s", "o", "n">>, <<".", "m", "d">>, <<".", "c", "s", "s">>,
    <<".", "h", "t", "m", "l">> }

\* the characters the start of a prompt is made of
OptimizerChars == {"!", "@", "s", "t", "a", " ", "/", "."}

\* a prompt starts with no prefix command, with "!" or with "@strict"
PrefixCommands == { <<>>, <<"!">>, <<"@", "s", "t", "r", "i", "c", "t">> }

\* how many more words " w" follow the start of the prompt
MoreWords == {0, 2, 5, 16}

RECURSIVE Words(_)
\* k times the word " w"
Words(k) == IF k = 0 THEN <<>> ELSE <<" ", "w">> \o Words(k - 1)

\* the working directory of the hook input: none, a project without and a
\* project with CLAUDE.md
Cwds == { [name |-> "", has_claude_md |-> FALSE],
          [name |-> "proj", has_claude_md |-> FALSE],
          [name |-> "proj", has_claude_md |-> TRUE] }

\* str.startswith(prefix)
StartsWithSeq(s, prefix) ==
  Len(s) >= Len(prefix) /\ SubSeq(s, 1, Len(prefix)) = prefix

\* sub in s
Occurs(s, sub) ==
  \E i \in 0..(Len(s) - Len(sub)) : SubSeq(s, i + 1, i + Len(sub)) = sub

\* len(prompt.split()): the stretches of characters that are not whitespace
WordCount(s) ==
  Cardinality({ j \in 1..Len(s) :
                  s[j] \notin Whitespace /\ (j = 1 \/ s[j - 1] \in Whitespace) })

RECURSIVE LStripChars(_, _)
\* str.lstrip(chars): leading characters are removed as long as they are in
\* the set chars
LStripChars(s, chars) ==
  IF s # <<>> /\ Head(s) \in chars THEN LStripChars(Tail(s), chars) ELSE s

\* should_optimize
ShouldOptimize(prompt) ==
  IF StartsWithSeq(prompt, <<"!">>) THEN FALSE
  ELSE IF StartsWithSeq(prompt, <<"@", "s", "t", "r", "i", "c", "t">>) THEN TRUE
  ELSE LET word_count == WordCount(prompt)
           has_file_ref == \E ext \in FILE_EXTENSIONS : Occurs(prompt, ext)
           has_path_ref == Occurs(prompt, <<"/">>)
       IN IF word_count < 3 THEN TRUE
          ELSE IF word_count < MIN_WORDS /\ ~(has_file_ref \/ has_path_ref) THEN TRUE
          ELSE IF word_count > DETAILED_THRESHOLD /\ (has_file_ref \/ has_path_ref)
          THEN FALSE
          ELSE TRUE

\* the wrapper text around a cleaned prompt: the prompt is embedded twice, the
\* note on CLAUDE.md is appended when the project has one
WrapperAround(clean_prompt, cwd) ==
  LET project_name == IF cwd.name # "" THEN cwd.name ELSE "unknown"
      wrapper == <<"PROMPT OPTIMIZATION MODE\n\nOriginal user request: \"">>
                   \o clean_prompt
                   \o <<"\"\n\nProject: ", project_name, "\nHas CLAUDE.md: ",
                        IF cwd.has_claude_md THEN "True" ELSE "False",
                        "\n\nACTION REQUIRED ... optimize this user prompt: \"">>
                   \o clean_prompt
                   \o <<"\"\n\nEVALUATION PROCESS ... originally\n">>
  IN IF cwd.has_claude_md
     THEN wrapper \o <<"\n\nNOTE: This project has CLAUDE.md documentation ...\n">>
     ELSE wrapper

\* clean_prompt = prompt.lstrip("!@strict").strip()
CleanPromptOptimizer(prompt) ==
  Strip(LStripChars(prompt, {"!", "@", "s", "t", "r", "i", "c"}))

\* build_optimization_wrapper
BuildOptimizationWrapper(prompt, cwd) ==
  WrapperAround(CleanPromptOptimizer(prompt), cwd)

\* the hook is started with its standard input
InitOptimizer ==
  /\ \E len \in 0..MaxPromptLen :
       \E prefix \in PrefixCommands, begin \in [1..len -> OptimizerChars],
          more \in MoreWords, cwd \in Cwds :
         \E stdin \in {[kind |-> "prompt", prompt |-> prefix \o begin \o Words(more),
                        cwd |-> cwd],
                       [kind |-> "no_prompt", prompt |-> <<>>, cwd |-> cwd],
                       [kind |-> "invalid", prompt |-> <<>>, cwd |-> cwd]} :
           optimizer = [NoOptimizer EXCEPT !.stdin = stdin, !.state = "Started"]
  /\ hook = NoHook
  /\ pipeline = NoPipeline
  /\ fetcher = NoFetcher
  /\ search = NoSearch
  /\ analyzer = NoAnalyzer
  /\ finalize_trades = FALSE
  /\ pc = "Start"
  /\ data = <<>>
  /\ n = 0
  /\ predictions = <<>>
  /\ current_price = <<>>
  /\ rsi = <<>>
  /\ macd = <<>>
  /\ macd_signal = <<>>
  /\ cash = StartCash * Scale
  /\ orders = <<>>
  /\ trades = <<>>
  /\ closed_trades = <<>>
  /\ next_id = 1
  /\ equity = <<>>
  /\ equity_curve = <<>>
  /\ actions = <<>>
  /\ results = None
  /\ returned = <<>>
  /\ raw = [df |-> <<>>, predictions |-> <<>>]

optimizerOthers == <<runnerVars, analyzer, search, hook, pipeline, fetcher>>

\* main when stdin is not JSON: sys.exit(0) without output
NotJson ==
  /\ optimizer.state = "Started"
  /\ optimizer.stdin.kind = "invalid"
  /\ optimizer' = [optimizer EXCEPT !.status = 0, !.state = "Exited"]
  /\ UNCHANGED optimizerOthers

\* main when should_optimize is false: the prompt without leading "!" and
\* surrounding whitespace is printed
PassThrough ==
  /\ optimizer.state = "Started"
  /\ optimizer.stdin.kind # "invalid"
  /\ ~ShouldOptimize(optimizer.stdin.prompt)
  /\ optimizer' = [optimizer EXCEPT
       !.stdout = Printed(Strip(LStripChars(optimizer.stdin.prompt, {"!"}))),
       !.status = 0, !.state = "Passed"]
  /\ UNCHANGED optimizerOthers

\* main when should_optimize is true: the wrapper is built and printed
PrintWrapper ==
  /\ optimizer.state = "Started"
  /\ optimizer.stdin.kind # "invalid"
  /\ ShouldOptimize(optimizer.stdin.prompt)
  /\ optimizer' = [optimizer EXCEPT
       !.stdout = Printed(BuildOptimizationWrapper(optimizer.stdin.prompt,
                                                   optimizer.stdin.cwd)),
       !.status = 0, !.state = "Wrapped"]
  /\ UNCHANGED optimizerOthers

NextOptimizer == NotJson \/ PassThrough \/ PrintWrapper

OptimizerSpec == InitOptimizer /\ [][NextOptimizer]_vars

(* ------------------------------ the claims ----------------------------- *)
Closed == { closed_trades[j] : j \in 1..Len(closed_trades) }
OpenTrades == { trades[j] : j \in 1..Len(trades) }
Decisions == { actions[j] : j \in 1..Len(actions) }
EntryOrders == { orders[j] : j \in { m \in 1..Len(orders) : orders[m].parent = 0 } }

\* the last bar broker.next has run on
Processed == IF pc = "broker" THEN n - 1 ELSE n

\* the forecast-implied change of bar b itself: (forecast - close) / close
BarChange(b) ==
  [num |-> data[b].Predicted_Price - data[b].Close, den |-> data[b].Close]

LongConditions(b) ==
  /\ Above(BarChange(b), prediction_threshold)
  /\ data[b].RSI < rsi_overbought
  /\ data[b].MACD > data[b].MACD_Signal

ShortConditions(b) ==
  /\ Below(BarChange(b), -prediction_threshold)
  /\ data[b].RSI > rsi_oversold
  /\ data[b].MACD < data[b].MACD_Signal

\* the range of bar b reaches both the stop and the target of trade t
TouchesBoth(t, b) ==
  IF t.size > 0
  THEN data[b].Low * Scale <= t.sl /\ data[b].High * Scale >= t.tp
  ELSE data[b].High * Scale >= t.sl /\ data[b].Low * Scale <= t.tp

\* C1: at most one position is open in every state of a run, and an entry
\* order is queued only while no position is open, so that a position is
\* never opened while another one exists.
C1_AtMostOnePosition ==
  /\ Len(trades) <= 1
  /\ Side(trades) \in {"Flat", "Long", "Short"}
  /\ EntryOrders # {} => trades = <<>>

\* a position is open after an earlier one was closed, and next() runs on it
C1_Witness == pc = "strategy" /\ Len(trades) = 1 /\ closed_trades # <<>>

\* C2: in the Finished state of a run no position is open.
C2_FinishedFlat == pc = "Finished" => trades = <<>>

\* C3 (as claimed): every trade of the trade log has its exit timestamp
\* strictly after its entry timestamp.
C3_ExitAfterEntry == \A t \in Closed : t.exit_bar > t.entry_bar

\* C3 (amended): no trade of the trade log has its exit timestamp before its
\* entry timestamp; the two are equal only for a trade that its stop-loss or
\* take-profit order, or the closing of trades at the end of the data, closed
\* on the bar whose open filled it.
C3_ExitNotBeforeEntry ==
  \A t \in Closed :
    /\ t.exit_bar >= t.entry_bar
    /\ t.exit_bar = t.entry_bar => t.reason \in {"sl", "tp", "finalize"}

\* an order filled at a bar's open and its stop was touched within that bar
C3_Witness ==
  \E t \in Closed : t.exit_bar = t.entry_bar /\ t.reason = "sl"

\* C4: the equity curve of a completed run has one entry per bar of the
\* series, in strictly increasing time order, and every entry is a number.
C4_EquityCurve ==
  pc = "Finished" =>
    /\ Len(equity_curve) = Len(data)
    /\ \A j \in 1..Len(equity_curve) :
         /\ equity_curve[j].equity # NaN
         /\ equity_curve[j].time = j
         /\ j > 1 => equity_curve[j].time > equity_curve[j - 1].time

\* a completed run over three or more bars in which a protective order fired
C4_Witness ==
  /\ pc = "Finished"
  /\ Len(data) >= 3
  /\ \E t \in Closed : t.reason \in {"sl", "tp"}

\* C5: next() decides EnterLong on a bar exactly when that bar's forecast
\* change is above the threshold, its RSI below the overbought bound, its
\* MACD above its signal line, and no position is open.
C5_EnterLongIff ==
  \A a \in Decisions :
    a.action = "EnterLong" <=> (LongConditions(a.bar) /\ a.side = "Flat")

\* C6: next() decides EnterShort on a bar exactly when that bar's forecast
\* change is below minus the threshold, its RSI above the oversold bound, its
\* MACD below its signal line, and no position is open.
C6_EnterShortIff ==
  \A a \in Decisions :
    a.action = "EnterShort" <=> (ShortConditions(a.bar) /\ a.side = "Flat")

\* C7: with a position open, next() decides Exit on a bar exactly when that
\* bar's forecast change is below minus the threshold for a long, above the
\* threshold for a short; a trade closed that way has reason "close".
C7_ExitIff ==
  \A a \in Decisions :
    a.side # "Flat" =>
      (a.action = "Exit" <=>
         \/ a.side = "Long" /\ Below(BarChange(a.bar), -prediction_threshold)
         \/ a.side = "Short" /\ Above(BarChange(a.bar), prediction_threshold))

\* what a stop order fills at: the stop price, or the bar's open when the bar
\* opened beyond the stop
StopFill(t, b) ==
  IF t.size > 0 THEN Min(data[b].Open * Scale, t.sl)
  ELSE Max(data[b].Open * Scale, t.sl)

\* C8 (as claimed): a bar that touches both the stop-loss and the take-profit
\* price of the open position closes it with reason stop-loss at the stop
\* price.
C8_StopFirstAtStopPrice ==
  /\ \A t \in Closed :
       TouchesBoth(t, t.exit_bar) => t.reason = "sl" /\ t.exit_price = t.sl
  /\ \A t \in OpenTrades : \A b \in t.entry_bar..Processed : ~TouchesBoth(t, b)

\* C8 (amended): such a bar closes the position with reason stop-loss, never
\* take-profit, at the stop price or, when the bar opened beyond the stop, at
\* the bar's open.
C8_StopFirst ==
  /\ \A t \in Closed :
       TouchesBoth(t, t.exit_bar) =>
         t.reason = "sl" /\ t.exit_price = StopFill(t, t.exit_bar)
  /\ \A t \in OpenTrades : \A b \in t.entry_bar..Processed : ~TouchesBoth(t, b)

\* a position held over from an earlier bar met a bar touching both prices
C8_Witness ==
  \E t \in Closed : TouchesBoth(t, t.exit_bar) /\ t.exit_bar > t.entry_bar

\* C9: on a bar on which a position was closed, next() is not asked for an
\* entry afterwards and no new position is opened.
C9_NoEntryOnExitBar ==
  \A j \in 1..Len(closed_trades) :
    LET t == closed_trades[j] IN
    /\ \A a \in Decisions :
         (a.bar = t.exit_bar /\ a.closed >= j) => a.side # "Flat"
    /\ \A u \in Closed \cup OpenTrades : u.id > t.id => u.entry_bar > t.exit_bar


\* the P&L a closed trade realized: price difference x signed size, less the
\* commission on the entry fill and on the exit fill
RealizedPl(t) ==
  TradePl(t, t.exit_price)
    - Commission(t.size, t.entry_price) - Commission(t.size, t.exit_price)

RECURSIVE SumRealized(_)
SumRealized(ts) ==
  IF ts = <<>> THEN 0 ELSE RealizedPl(Head(ts)) + SumRealized(Tail(ts))

RECURSIVE SumEntryCommission(_)
SumEntryCommission(ts) ==
  IF ts = <<>> THEN 0
  ELSE Commission(Head(ts).size, Head(ts).entry_price) + SumEntryCommission(Tail(ts))

\* C11: every close realizes (exit - entry) x size x direction less the two
\* commissions, so that cash is the starting capital plus the realized P&L of
\* the trade log (less the entry commission of the open trade); and a long
\* closed by its take-profit order realized entry x size x take_profit_pct
\* before commissions.
C11_ClosePnl ==
  /\ (\A j \in 1..Len(equity) : equity[j] # <<0>>) =>
       cash = StartCash * Scale + SumRealized(closed_trades)
                - SumEntryCommission(trades)
  /\ \A t \in Closed :
       (t.reason = "tp" /\ t.size > 0) =>
         TradePl(t, t.exit_price) * Scale = t.entry_price * t.size * take_profit_pct

\* C12: the calls of run_backtest on one runner, with the same bar series,
\* strategy and engine configuration, return the same trade log, equity curve,
\* final cash and sequence of decisions.
C12_Deterministic ==
  \A a, b \in 1..Len(returned) : returned[a] = returned[b]

\* a second run completed, and the runs traded
C12_Witness ==
  /\ Len(returned) = 2
  /\ pc = "Finished"
  /\ returned[1].trades # <<>>
  /\ returned[1].final_cash # StartCash * Scale

\* the rows of the frame that come out of the preparation with every column
\* defined
DefinedRows ==
  { j \in 1..Len(raw.df) : Defined(BtData(raw.df, raw.predictions)[j]) }

\* no bar was simulated: no trade, no equity entry, no decision
NothingSimulated ==
  /\ trades = <<>>
  /\ closed_trades = <<>>
  /\ orders = <<>>
  /\ equity = <<>>
  /\ equity_curve = <<>>
  /\ actions = <<>>
  /\ returned = <<>>

\* C13 (as claimed): the simulated frame has exactly the rows with every
\* indicator and forecast defined, and when no row remains the run fails with
\* InsufficientDataError before any bar is simulated.
C13_InsufficientDataError ==
  /\ pc \notin {"Start", "ValueError"} =>
       /\ Len(data) = Cardinality(DefinedRows)
       /\ \A j \in 1..Len(data) :
            \A col \in {"Predicted_Price", "RSI", "MACD", "MACD_Signal"} :
              data[j][col] \in Int
  /\ (pc # "Start" /\ DefinedRows = {}) =>
       /\ pc \in {"Prepared", "InsufficientDataError"}
       /\ NothingSimulated

\* C13 (amended): the same, the failure being the ValueError that the
\* preparation or Backtest(...) raises.
C13_FailsBeforeSimulation ==
  /\ pc \notin {"Start", "ValueError"} =>
       /\ Len(data) = Cardinality(DefinedRows)
       /\ \A j \in 1..Len(data) :
            \A col \in {"Predicted_Price", "RSI", "MACD", "MACD_Signal"} :
              data[j][col] \in Int
  /\ (pc # "Start" /\ DefinedRows = {}) =>
       /\ pc \in {"Prepared", "ValueError"}
       /\ NothingSimulated

\* every row of a non-empty frame was dropped and Backtest(...) raised
C13_Witness ==
  /\ pc = "ValueError"
  /\ Len(raw.df) >= 2
  /\ Len(raw.predictions) >= 1
  /\ DefinedRows = {}

\* calculate_metrics or generate_report has run on the analyzer
Computed == analyzer.state \in {"Calculated", "Reported", "KeyError"}

\* C14: the metrics of every trade log contain a win rate, winning trades /
\* total trades for a log with a trade and 0 for the empty log, and computing
\* or reporting them raises no error.
C14_WinRateDefined ==
  Computed =>
    /\ analyzer.state # "KeyError"
    /\ "win_rate_pct" \in DOMAIN analyzer.metrics
    /\ LET total == Len(analyzer.trades_df)
           winning == Len(Wins(analyzer.trades_df))
           rate == analyzer.metrics.win_rate_pct
       IN IF total > 0
          THEN rate.num * total = winning * 100 * rate.den
          ELSE rate.num = 0

\* C15: the metrics of every trade log contain the profit factor, which is
\* |sum of winning P&L / sum of losing P&L| when a trade is losing and
\* +infinity when none is; when every trade is losing the win rate is 0 and
\* max_consecutive_wins is 0.
C15_ProfitFactor ==
  Computed =>
    /\ "profit_factor" \in DOMAIN analyzer.metrics
    /\ LET pnl == analyzer.trades_df
           pf == analyzer.metrics.profit_factor
       IN /\ Losses(pnl) # <<>> =>
               /\ pf.den # 0
               /\ pf.num * Abs(Sum(Losses(pnl))) = Sum(Wins(pnl)) * pf.den
          /\ Losses(pnl) = <<>> => pf = Infinity
          /\ (pnl # <<>> /\ Len(Losses(pnl)) = Len(pnl)) =>
               /\ analyzer.metrics.win_rate_pct.num = 0
               /\ analyzer.metrics.max_consecutive_wins = 0

\* C16: for every equity curve the metrics contain the max drawdown, it lies
\* in [-100%, 0%], and it is 0 exactly when the curve never decreases.
C16_MaxDrawdown ==
  (Computed /\ analyzer.equity_curve # None) =>
    /\ "max_drawdown_pct" \in DOMAIN analyzer.metrics
    /\ LET eq == analyzer.equity_curve
           dd == analyzer.metrics.max_drawdown_pct
       IN /\ dd.den > 0
          /\ dd.num <= 0
          /\ dd.num >= -100 * dd.den
          /\ dd.num = 0 <=> \A j \in 2..Len(eq) : eq[j] >= eq[j - 1]

\* the positions of the grid enumeration, and those that pass the constraint
Enumerated == 1..Len(Product)
Admissible == { k \in Enumerated : Constraint(Product[k]) }

\* the score the sweep recorded for the combination at position k of the grid
ScoreOf(k) ==
  search.heatmap[Cardinality({ m \in Admissible : m <= k })]

\* C17: the search returns exactly one configuration; it passes the
\* constraint; no other admissible combination has a larger score, and none
\* enumerated before it has an equal one (without any score, it is the first
\* admissible one); a combination violating the constraint is never run.
C17_BestFirstAdmissible ==
  /\ \A j \in 1..Len(search.runs) : Constraint(search.runs[j])
  /\ search.state = "Returned" =>
       /\ Len(search.best) = 1
       /\ \E k \in Admissible :
            /\ Product[k] = search.best[1]
            /\ \A m \in Admissible :
                 /\ ScoreOf(m) # NaN => ScoreOf(k) # NaN
                 /\ (ScoreOf(m) # NaN /\ ScoreOf(k) # NaN) =>
                      /\ Value(ScoreOf(m)) <= Value(ScoreOf(k))
                      /\ Value(ScoreOf(m)) = Value(ScoreOf(k)) => k <= m
                 /\ ScoreOf(k) = NaN => k <= m

\* a result chosen among equal maxima, with a violating combination enumerated
\* before it and a smaller score before it too
C17_Witness ==
  /\ search.state = "Returned"
  /\ \E k, m, v, w \in Enumerated :
       /\ Product[k] = search.best[1]
       /\ k \in Admissible /\ m \in Admissible /\ w \in Admissible
       /\ k < m /\ ScoreOf(k) # NaN /\ ScoreOf(m) = ScoreOf(k)
       /\ w < k /\ ScoreOf(w) # NaN /\ Value(ScoreOf(w)) < Value(ScoreOf(k))
       /\ v < k /\ v \notin Admissible

\* the prompt a finished run of the hook was given
GivenPrompt == IF hook.stdin.kind = "prompt" THEN hook.stdin.prompt ELSE <<>>

\* the hook ran on a prompt and exited
HookDone == hook.state = "Exited" /\ hook.stdin.kind = "prompt"

\* standard output carries the evaluation wrapper
HasWrapper ==
  \E j \in 1..Len(hook.stdout) :
    hook.stdout[j] \in {WrapperHead, WrapperTail, PlainHead, PlainTail}

\* standard output without the newline print() ends it with
PrintedText == SubSeq(hook.stdout, 1, Len(hook.stdout) - 1)

\* C19: for a prompt that starts with '*', the hook prints what is left of the
\* prompt after that one '*' once the whitespace around it is removed: a
\* stretch of the rest that has no whitespace at either end and leaves out
\* only whitespace; there is no wrapper and the exit status is 0.
C19_AsteriskBypass ==
  (HookDone /\ StartsWith(GivenPrompt, "*")) =>
    LET rest == SubSeq(GivenPrompt, 2, Len(GivenPrompt))
        out == PrintedText
    IN /\ hook.status = 0
       /\ ~HasWrapper
       /\ hook.stdout # <<>> /\ hook.stdout[Len(hook.stdout)] = "\n"
       /\ \E i \in 1..(Len(rest) + 1) :
            /\ out = SubSeq(rest, i, i + Len(out) - 1)
            /\ \A j \in 1..Len(rest) :
                 (j < i \/ j > i + Len(out) - 1) => rest[j] \in Whitespace
       /\ out # <<>> => (out[1] \notin Whitespace /\ out[Len(out)] \notin Whitespace)

\* a bypassed prompt with whitespace around its text and a second '*'
C19_Witness ==
  /\ HookDone
  /\ GivenPrompt = <<"*", " ", "*">>
  /\ PrintedText = <<"*">>

\* C20: for a prompt that starts with '/' or '#', the hook prints the prompt
\* itself, character for character, without a wrapper, and exits with 0.
C20_SlashHashBypass ==
  (HookDone /\ (StartsWith(GivenPrompt, "/") \/ StartsWith(GivenPrompt, "#"))) =>
    /\ hook.status = 0
    /\ ~HasWrapper
    /\ hook.stdout = GivenPrompt \o <<"\n">>

\* a memorize prompt with characters the wrapper would escape and whitespace
\* at its end
C20_Witness ==
  /\ HookDone
  /\ GivenPrompt = <<"#", "&", " ">>
  /\ hook.stdout = <<"#", "&", " ", "\n">>

\* the hook read a JSON object and exited
HookRan == hook.state = "Exited" /\ hook.stdin.kind # "invalid"

\* the prompt starts with one of the bypass prefixes
Bypassed == \E c \in {"*", "/", "#"} : StartsWith(GivenPrompt, c)

\* the text of a JSON object {"hookSpecificOutput": {"hookEventName":
\* "UserPromptSubmit", "additionalContext": "..."}} before and after the
\* context string
JsonOpen == "{\"hookSpecificOutput\": {\"hookEventName\": \"UserPromptSubmit\", \"additionalContext\": \""
JsonClose == "\"}}"

\* C21: for every prompt, bypassed or not or empty, standard output is one
\* JSON object with hookSpecificOutput.hookEventName = "UserPromptSubmit" and
\* a string additionalContext: the text starts with the opening of that object
\* and ends with its closing.
C21_JsonOutput ==
  HookRan =>
    /\ hook.status = 0
    /\ Len(PrintedText) >= 2
    /\ PrintedText[1] = JsonOpen
    /\ PrintedText[Len(PrintedText)] = JsonClose

\* s occurs in t as a stretch of consecutive characters
Contains(t, s) ==
  \E i \in 0..(Len(t) - Len(s)) : SubSeq(t, i + 1, i + Len(s)) = s

\* C22: for a prompt without a bypass prefix the output is the evaluation
\* wrapper and the prompt occurs in it verbatim, whatever its characters.
\* (The fixed text of both wrappers has no '&' and no backslash and meets the
\* embedded prompt with '>', '<' or '"'; a prompt over Chars with '&' or a
\* backslash can therefore occur only inside the embedded part.)
C22_PromptVerbatim ==
  (HookDone /\ ~Bypassed) =>
    /\ hook.status = 0
    /\ HasWrapper
    /\ Contains(hook.stdout, GivenPrompt)

\* the steps started are, in this order, the steps of Steps that are not
\* skipped, up to some step
StartedInOrder ==
  LET due == SelectSeq(Steps, LAMBDA s : ~Skipped(pipeline, s))
  IN /\ Len(pipeline.started) <= Len(due)
     /\ pipeline.started = SubSeq(due, 1, Len(pipeline.started))

\* a started step did not return
SomeStepRaised ==
  /\ pipeline.pc \in {"returned", "raised", "exited"}
  /\ Len(pipeline.completed) < Len(pipeline.started)

\* C23: the steps run in the order fetch, preprocess, train, backtest without
\* the skipped ones; once a step has raised no later step is started and the
\* result is False; the result is True only when every step that is not
\* skipped has completed.
C23_PipelineOrder ==
  /\ StartedInOrder
  /\ pipeline.completed = SubSeq(pipeline.started, 1, Len(pipeline.completed))
  /\ Len(pipeline.started) - Len(pipeline.completed) <= 1
  /\ pipeline.result = "True" =>
       pipeline.completed = SelectSeq(Steps, LAMBDA s : ~Skipped(pipeline, s))
  /\ SomeStepRaised => pipeline.result = "False"

\* the parts of C23 about the order, about stopping and about True
C23_OrderAndStop ==
  /\ StartedInOrder
  /\ pipeline.completed = SubSeq(pipeline.started, 1, Len(pipeline.completed))
  /\ Len(pipeline.started) - Len(pipeline.completed) <= 1
  /\ pipeline.result = "True" =>
       pipeline.completed = SelectSeq(Steps, LAMBDA s : ~Skipped(pipeline, s))
  /\ (SomeStepRaised /\ pipeline.raised = "None") => pipeline.result = "False"

\* C24: every open position has its stop-loss and take-profit at
\* entry x (1 -/+ stop_loss_pct) and entry x (1 +/- take_profit_pct), the sign
\* by side, where entry is the price the position was filled at.
C24_BracketFromFill ==
  \A j \in 1..Len(trades) :
    LET t == trades[j]
    IN IF t.size > 0
       THEN /\ t.sl * Scale = t.entry_price * (Scale - stop_loss_pct)
            /\ t.tp * Scale = t.entry_price * (Scale + take_profit_pct)
       ELSE /\ t.sl * Scale = t.entry_price * (Scale + stop_loss_pct)
            /\ t.tp * Scale = t.entry_price * (Scale - take_profit_pct)

\* what next() decides with position state side when the last bar of the
\* series, the bar the captured arrays are read at, is the bar last
ActionReading(last, side) ==
  LET change == [num |-> last.Predicted_Price - last.Close, den |-> last.Close]
  IN IF side = "Long"
     THEN IF Below(change, -prediction_threshold) THEN "Exit" ELSE "Hold"
     ELSE IF side = "Short"
     THEN IF Above(change, prediction_threshold) THEN "Exit" ELSE "Hold"
     ELSE IF ShouldGoLong(change, last.RSI, last.MACD, last.MACD_Signal)
     THEN "EnterLong"
     ELSE IF ShouldGoShort(change, last.RSI, last.MACD, last.MACD_Signal)
     THEN "EnterShort"
     ELSE "Hold"

\* C25: the action on bar i is the same for every series that agrees with
\* this one on bars 0..i: whatever bar stands at the end of the series in
\* place of the last one, a decision taken on an earlier bar stays what it
\* was (the first conjunct ties ActionReading to the decisions of the run).
C25_NoLookAhead ==
  /\ \A a \in Decisions : a.action = ActionReading(data[Len(data)], a.side)
  /\ \A a \in Decisions :
       a.bar < Len(data) =>
         \A later \in Bars : ActionReading(later, a.side) = a.action

\* the first conjunct of C25 alone: ActionReading is what the run decided
C25_ReadsLastBar ==
  \A a \in Decisions : a.action = ActionReading(data[Len(data)], a.side)

\* trade t was filled at the open of the bar after a bar on which next()
\* decided to enter in its direction
FilledAtNextOpen(t) ==
  /\ t.entry_price = data[t.entry_bar].Open * Scale
  /\ \E a \in Decisions :
       /\ a.bar + 1 = t.entry_bar
       /\ a.action = IF t.size > 0 THEN "EnterLong" ELSE "EnterShort"

\* closed trade t was closed by next() and filled at the open of the bar after
ClosedAtNextOpen(t) ==
  /\ t.exit_price = data[t.exit_bar].Open * Scale
  /\ \E a \in Decisions : a.bar + 1 = t.exit_bar /\ a.action = "Exit"

\* C26: with trade_on_close off, every entry of a run is filled at the open of
\* the bar after its decision, every exit that next() asked for likewise, and
\* an entry decided on the last bar is not filled at all; this is so for every
\* trade of every run on the runner.
C26_OneFillPolicy ==
  /\ ~trade_on_close
  /\ \A t \in OpenTrades \cup Closed : FilledAtNextOpen(t)
  /\ \A t \in Closed : t.reason = "close" => ClosedAtNextOpen(t)
  /\ \A j \in 1..Len(returned) :
       \A k \in 1..Len(returned[j].trades) :
         returned[j].trades[k].entry_price =
           data[returned[j].trades[k].entry_bar].Open * Scale

\* C26 where the framework does not finalize trades at the end of the run
C26_WithoutFinalize == ~finalize_trades => C26_OneFillPolicy

\* C27: the first entry of the equity curve of every run is the starting
\* capital, also when next() enters on the first simulated bar and the
\* commission is not zero.
C27_FirstEquity ==
  /\ pc = "Finished" => equity_curve[1].equity = Cell(StartCash * Scale)
  /\ \A j \in 1..Len(returned) :
       returned[j].equity_curve[1].equity = Cell(StartCash * Scale)

\* C27 where the framework does not finalize trades at the end of the run
C27_WithoutFinalize == ~finalize_trades => C27_FirstEquity

\* C27 for series of three bars or more
C27_LongerSeries == Len(data) >= 3 => C27_FirstEquity

\* the length of the longest stretch of consecutive trades whose P&L has the
\* given sign (1 for winning trades, -1 for losing trades)
LongestRun(pnl, sign) ==
  LET lengths == { j - i + 1 : i \in 1..Len(pnl), j \in 1..Len(pnl) } \cup {0}
      runs == { x \in lengths :
                  x = 0 \/ \E i \in 1..(Len(pnl) - x + 1) :
                             \A k \in i..(i + x - 1) : pnl[k] * sign > 0 }
  IN CHOOSE x \in runs : \A y \in runs : y <= x

\* C28: for a log with a trade (the empty log is the case of C14),
\* max_consecutive_wins is the longest run of winning trades and
\* max_consecutive_losses the longest run of losing trades, neither above the
\* number of winning or of losing trades, break-even trades included.
C28_Streaks ==
  (Computed /\ Len(analyzer.trades_df) > 0) =>
    LET m == analyzer.metrics
        pnl == analyzer.trades_df
    IN /\ m.max_consecutive_wins = LongestRun(pnl, 1)
       /\ m.max_consecutive_wins <= m.winning_trades
       /\ m.max_consecutive_losses = LongestRun(pnl, -1)
       /\ m.max_consecutive_losses <= m.losing_trades

\* C28 for the logs without a break-even trade
C28_WithoutBreakEven ==
  (\A j \in 1..Len(analyzer.trades_df) : analyzer.trades_df[j] # 0) => C28_Streaks

\* the prompt without its prefix command: "@strict" cut off when the prompt
\* starts with it (a prompt that starts with "!" is not optimized)
WithoutPrefixCommand(prompt) ==
  IF StartsWithSeq(prompt, <<"@", "s", "t", "r", "i", "c", "t">>)
  THEN SubSeq(prompt, 8, Len(prompt))
  ELSE prompt

\* C29: the wrapper printed for a prompt sent to optimization embeds the
\* prompt without its prefix command and without the whitespace around it,
\* and with every other character unchanged.
C29_WrapperEmbedsPrompt ==
  optimizer.state = "Wrapped" =>
    optimizer.stdout =
      Printed(WrapperAround(Strip(WithoutPrefixCommand(optimizer.stdin.prompt)),
                            optimizer.stdin.cwd))

\* C29 for the prompts whose text after the prefix command starts with none
\* of the characters of "!@strict"
C29_OtherFirstLetters ==
  LET rest == Strip(WithoutPrefixCommand(optimizer.stdin.prompt))
  IN (optimizer.stdin.kind = "prompt" /\
      (rest = <<>> \/ rest[1] \notin {"!", "@", "s", "t", "r", "i", "c"}))
       => C29_WrapperEmbedsPrompt

\* the returned frame has strictly increasing timestamps
FrameIncreasing ==
  fetcher.state = "Returned" =>
    \A j \in 2..Len(fetcher.df) : fetcher.df[j - 1] < fetcher.df[j]

\* a pass of the loop that stays in the loop moves current_dt forward
LoopAdvances ==
  (fetcher.state = "Loop" /\ fetcher'.state = "Loop") =>
    fetcher'.current_dt > fetcher.current_dt

\* C30: every pass of the pagination loop either leaves the loop or moves
\* current_dt strictly forward, so that the loop terminates whatever the
\* exchange answers, and the frame returned has strictly increasing
\* timestamps without duplicates.
C30_LoopTerminates == [][LoopAdvances]_vars /\ []FrameIncreasing

=============================================================================
